---- MODULE Spec2Model ----
(***************************************************************************)
(* A model of the CrateDB HTTP client (src/src/CrateDBClient.ts) and of    *)
(* its server-side cursor (src/src/Cursor.ts): one client, one cursor at a *)
(* time driven by a single caller, the HTTP exchange of every statement,   *)
(* and the error values that reach the caller (specification Spec); and    *)
(* the constructors and pure functions of the library applied to bounded   *)
(* inputs (specifications LibSpec and PureSpec).                           *)
(***************************************************************************)
EXTENDS Integers, Sequences, FiniteSets, TLC

\* The largest result set the cursor's query has on the server.
MaxRows == 3
\* The largest size argument a caller passes to fetchMany / iterate / streamQuery.
MaxBatch == 2
\* The largest number of rows of a bulk statement.
MaxBulk == 3
\* The milliseconds the clock advances in LibSpec.
MaxClock == 2
\* The number of cursors constructed in LibSpec.
MaxCursors == 2
\* The largest integer of the serializer's inputs is 2^53 + MaxOffset.
MaxOffset == 3

VARIABLES
  cfg,            \* the client's resolved configuration (this.cfg)
  nRows,          \* the number of rows of the cursor's query on the server
  owner,          \* who holds the current Cursor: "none", "caller", "streamQuery"
  isOpen,         \* Cursor.isOpen
  agentSockets,   \* sockets held by the cursor's pinned agent
  agentDestroyed, \* whether agent.destroy() was called on the cursor's agent
  srvDeclared,    \* the server holds the declared cursor
  srvPos,         \* rows of the result the server-side cursor has handed out
  top,            \* the caller's current call: [name, arg, state]
  meth,           \* the Cursor method that is awaiting a statement: [name, pc, size]
  gen,            \* the iterate() generator: [pc, size, batch]; pc tells how it ended
  stream,         \* the streamQuery() generator: [pc, pending]
  req,            \* the HTTP request in flight
  settled,        \* how the last client.execute / executeMany call settled
  mret,           \* how the last Cursor method settled
  sent,           \* the requests sent during the caller's current call
  yielded,        \* the rows handed to the consumer during the current call
  lastResp,       \* what the network delivered for the last request
  execErr,        \* the last error client.execute raised during the current call
  got,            \* rows returned by the fetches since the cursor was opened
  clean,          \* no fetch failed since the cursor was opened
  baseHeaders,    \* the headers object of this.httpOptions (shared by reference)
  now,            \* Date.now(), in milliseconds
  cursorNames,    \* cursorName of every Cursor constructed, in order of construction
  input,          \* the library function applied last, with its arguments
  output          \* what that application returned or threw

vars == <<cfg, nRows, owner, isOpen, agentSockets, agentDestroyed, srvDeclared,
          srvPos, top, meth, gen, stream, req, settled, mret, sent,
          yielded, lastResp, execErr, got, clean, baseHeaders,
          now, cursorNames, input, output>>

\* The state of LibSpec.
libVars == <<now, cursorNames, input, output>>

cursorVars == <<owner, isOpen, agentSockets, agentDestroyed>>
serverVars == <<srvDeclared, srvPos>>

----------------------------------------------------------------------------
(* Values *)

Null == [json |-> "null"]
Undefined == [json |-> "undefined"]
NoErr == [kind |-> "none"]
NoReq == [verb |-> "none"]
NoRes == [state |-> "none"]
NoResp == [t |-> "none"]
NoMeth == [name |-> "none", pc |-> "none", size |-> 0]
NoGen == [pc |-> "none", size |-> 0, batch |-> <<>>]
NoStream == [pc |-> "none", pending |-> NoRes]
Idle == [name |-> "idle", arg |-> 0, state |-> "idle", value |-> Null, error |-> NoErr]

\* A JSON string value (a property that may also be undefined).
Str(s) == [json |-> "string", s |-> s]

\* Other JavaScript values an untyped caller can pass.
Num(n) == [json |-> "number", n |-> n]
Bool(b) == [json |-> "boolean", b |-> b]
Arr(items) == [json |-> "array", items |-> items]
Obj(fields) == [json |-> "object", fields |-> fields]

\* typeof v
TypeOf(v) ==
  CASE v.json \in {"null", "array", "object"} -> "object"
    [] OTHER -> v.json

\* Array.isArray(v)
IsArray(v) == v.json = "array"

\* The truth value of v in a condition (!v is its negation).
Truthy(v) ==
  CASE v.json \in {"null", "undefined"} -> FALSE
    [] v.json = "string" -> v.s # ""
    [] v.json = "number" -> v.n # 0
    [] v.json = "boolean" -> v.b
    [] OTHER -> TRUE

\* A parameter with the default null: undefined selects the default.
DefaultNull(v) == IF v = Undefined THEN Null ELSE v

\* defaultConfig, with no CRATEDB_* environment variable set: the fields the
\* constructor and the request path read.
defaultConfig ==
  [user |-> Str("crate"), password |-> Str(""), host |-> Str("localhost"),
   port |-> Num(4200), connectionString |-> Null, ssl |-> Bool(FALSE),
   rowMode |-> Str("array"), enableCompression |-> TRUE, compressionThreshold |-> 1024,
   maxConnections |-> 20,
   deserialization |-> [long |-> "number", timestamp |-> "date", date |-> "date"]]

\* CrateDBClient.httpAgent: the shared pool of the client.
httpAgent == [id |-> "shared", keepAlive |-> TRUE, maxSockets |-> cfg.maxConnections]

\* this.httpOptions as built by the constructor.
httpOptions ==
  [path |-> "/_sql?types", method |-> "POST",
   headers |-> baseHeaders,
   agent |-> httpAgent]

\* The headers the constructor puts into this.httpOptions (no credentials, no
\* default schema configured).
ConstructedHeaders ==
  [Connection |-> "keep-alive", ContentType |-> "application/json",
   Accept |-> "application/json"]

\* Cursor constructor: the agent of the cursor and its request options.
cursorAgent == [id |-> "cursor", keepAlive |-> TRUE, maxSockets |-> 1]

\* An object spread {...a, ...b}: b's fields win.
Spread(a, b) ==
  [f \in DOMAIN a \cup DOMAIN b |-> IF f \in DOMAIN b THEN b[f] ELSE a[f]]

cursorOptions == Spread(httpOptions, [agent |-> cursorAgent])

----------------------------------------------------------------------------
(* Errors (src/unnamed/part_013) *)

\* new Error(message)
PlainError(msg) ==
  [kind |-> "Error", message |-> msg, cause |-> NoErr]

\* new RequestError(message, { cause })
RequestError(msg, cause) ==
  [kind |-> "RequestError", message |-> msg, cause |-> cause]

\* new DeserializationError(message)
DeserializationError(msg) ==
  [kind |-> "DeserializationError", message |-> msg, cause |-> NoErr]

\* new CrateDBError(message, code, error_trace, statusCode)
CrateDBError(msg, code, trace, statusCode) ==
  [kind |-> "CrateDBError", message |-> msg, cause |-> NoErr, code |-> code,
   error_trace |-> trace, statusCode |-> statusCode]

\* A property read of a JSON value: undefined when the property is absent.
Prop(obj, f) == IF f \in DOMAIN obj THEN obj[f] ELSE Undefined

\* fromResponse with the error code and the HTTP status code swapped.
FromResponseSwapped(response, statusCode) ==
  IF Prop(response, "error") = Undefined
    THEN [threw |-> TRUE,
          error |-> [kind |-> "TypeError",
                     message |-> <<"Cannot read properties of undefined">>,
                     cause |-> NoErr]]
    ELSE [threw |-> FALSE,
          error |-> CrateDBError(response.error.message, statusCode,
                                 Prop(response, "error_trace"), response.error.code)]

\* CrateDBError.fromResponse: reading response.error.message throws a TypeError
\* when the body has no error object.
fromResponse(response, statusCode) ==
  IF Prop(response, "error") = Undefined
    THEN [threw |-> TRUE,
          error |-> [kind |-> "TypeError",
                     message |-> <<"Cannot read properties of undefined">>,
                     cause |-> NoErr]]
    ELSE [threw |-> FALSE,
          error |-> CrateDBError(response.error.message, response.error.code,
                                 Prop(response, "error_trace"), statusCode)]

----------------------------------------------------------------------------
(* The server's result set and its wire format *)

Names == <<"Alice", "Bob", "Charlie", "David", "Eve", "Frank">>
Cols == <<"id", "name">>

\* A row as the wire carries it: an array aligned with cols.
ArrayRow(cells) == [shape |-> "array", cells |-> cells]
\* A row as a keyed object.
ObjectRow(obj) == [shape |-> "object", obj |-> obj]

\* Row i of the cursor's query, in result order.
Row(i) == ArrayRow(<<i, Names[i]>>)

\* Rows a+1 .. b of the result.
Segment(a, b) == [j \in 1..(b - a) |-> Row(a + j)]

\* A decoded 200 body of a statement that returns rows.
RowsBody(rows) ==
  [cols |-> Cols, rows |-> rows, rowcount |-> Len(rows), duration |-> 1]

\* A decoded 200 body of a statement that returns no rows (BEGIN, DECLARE, ...).
EmptyBody == [cols |-> <<>>, rows |-> <<>>, rowcount |-> 0, duration |-> 1]

\* A decoded 200 body of a bulk statement.
BulkBody(results) == [cols |-> <<>>, results |-> results, duration |-> 1]

\* A decoded non-200 body: the server's error envelope, with or without a trace.
ErrorBody(withTrace) ==
  IF withTrace
    THEN [error |-> [message |-> <<"SQLParseException">>, code |-> 4000],
          error_trace |-> Str("trace")]
    ELSE [error |-> [message |-> <<"SQLParseException">>, code |-> 4000]]

\* Bytes on the wire: JSON text of a value, or text that is no JSON at all.
Json(value) == [text |-> "json", value |-> value]
Garbage == [text |-> "garbage"]

\* Errors of the network stack (the "original underlying error").
SystemError(code) ==
  [kind |-> "Error", message |-> <<code>>, cause |-> NoErr, code |-> code]

SystemErrors == {SystemError("ENOTFOUND"), SystemError("ECONNRESET")}

ZlibError == SystemError("Z_MEM_ERROR")

----------------------------------------------------------------------------
(* Serializer.deserialize, as far as the request path depends on it *)

\* Serializer.deserialize: JSON.parse of the body; any failure is rethrown as a
\* DeserializationError.  The bodies of this model carry no col_types that
\* select a conversion.
deserialize(raw) ==
  IF raw.text = "json"
    THEN [threw |-> FALSE, value |-> raw.value]
    ELSE [threw |-> TRUE,
          error |-> DeserializationError(<<"Deserialization of response body failed">>)]

----------------------------------------------------------------------------
(* Serializer: serialize, replacer, _deserialize, reviver *)

\* The integers of the serializer's inputs, as offsets k from 2^53: the value
\* of offset k is 2^53 + k, so offset -1 is Number.MAX_SAFE_INTEGER.
Offsets == -2 .. MaxOffset

MAX_SAFE_INTEGER == -1

\* The bigint 2^53 + k.
BigInt(k) == [json |-> "bigint", k |-> k]

\* The Number 2^53 + k, for a k that a double can hold.
Number(k) == [json |-> "number", k |-> k]

\* The double nearest to the integer 2^53 + k: exact up to 2^53, and above it
\* the even neighbour, ties going to the one with an even mantissa.
ToDouble(k) ==
  IF k <= 0 \/ k % 2 = 0 THEN k
  ELSE IF (k + 1) % 4 = 0 THEN k + 1 ELSE k - 1

\* A token of JSON text with the digits of 2^53 + k: kind "int" is the bare
\* digits, "float" the digits followed by ".0", "string" the digits in quotes.
\* An array of tokens is [lit |-> "array", items |-> <<...>>].
Literal(kind, k) == [lit |-> kind, k |-> k]

\* The reviver converting the parsed double instead of the source text.
ReviverFromValue(value, source) ==
  IF value.json = "number" /\ value.k > MAX_SAFE_INTEGER /\ source.lit # "float"
    THEN BigInt(value.k)
    ELSE value

\* Serializer.reviver: context.source is the text of the token.
reviver(value, source) ==
  IF value.json = "number" /\ value.k > MAX_SAFE_INTEGER /\ source.lit # "float"
    THEN BigInt(source.k)
    ELSE value

RECURSIVE JSONParse(_, _)
\* JSON.parse of one token, with the reviver or without it.
JSONParse(token, revive) ==
  IF token.lit = "array"
    THEN Arr([i \in DOMAIN token.items |-> JSONParse(token.items[i], revive)])
  ELSE LET value == IF token.lit = "string" THEN [json |-> "string", k |-> token.k]
                    ELSE Number(ToDouble(token.k))
       IN IF revive THEN reviver(value, token) ELSE value

RECURSIVE extractBaseType(_)
\* Serializer.extractBaseType: an array type is [ARRAY, element type].
extractBaseType(type) ==
  IF IsArray(type) THEN extractBaseType(type.items[2]) ELSE type

\* recursiveConvert that leaves the cells inside an array as they are.
RecursiveConvertTopLevel(cell, converter) ==
  IF IsArray(cell) THEN cell
  ELSE IF cell.json = "number"
    THEN IF converter = "BigInt" THEN BigInt(cell.k) ELSE [json |-> "date", k |-> cell.k]
  ELSE cell

RECURSIVE recursiveConvert(_, _)
\* Serializer.recursiveConvert; the converter is BigInt(String(val)) or
\* new Date(val), the date of 2^53 + k milliseconds.
recursiveConvert(cell, converter) ==
  IF IsArray(cell)
    THEN Arr([i \in DOMAIN cell.items |-> recursiveConvert(cell.items[i], converter)])
  ELSE IF cell.json = "number"
    THEN IF converter = "BigInt" THEN BigInt(cell.k) ELSE [json |-> "date", k |-> cell.k]
  ELSE cell

\* Serializer._deserialize of a body with rows and, when the field is there,
\* col_types.  A column type is the number of ColumnTypes, written by its name.
_deserialize(str, config) ==
  LET revive == config.long = "bigint"
      types == IF "col_types" \in DOMAIN str THEN str.col_types ELSE <<>>
      Cell(r, i) ==
        LET parsed == JSONParse(str.rows[r][i], revive)
            baseType == IF i \in DOMAIN types THEN extractBaseType(types[i]).type ELSE "none"
        IN CASE baseType = "BIGINT" /\ config.long = "bigint" ->
                  recursiveConvert(parsed, "BigInt")
             [] baseType = "DATE" /\ config.date = "date" ->
                  recursiveConvert(parsed, "Date")
             [] baseType \in {"TIMESTAMP_WITH_TIME_ZONE", "TIMESTAMP_WITHOUT_TIME_ZONE"}
                  /\ config.timestamp = "date" ->
                  recursiveConvert(parsed, "Date")
             [] OTHER -> parsed
  IN [str EXCEPT !.rows = [r \in DOMAIN str.rows |->
                             [i \in DOMAIN str.rows[r] |-> Cell(r, i)]]]

\* Serializer.replacer: a bigint becomes JSON.rawJSON(value.toString()).
replacer(value) ==
  IF value.json = "bigint" THEN [json |-> "rawJSON", text |-> Literal("int", value.k)]
  ELSE value

\* Serializer.serialize of an array: JSON.stringify writes raw JSON as it is,
\* a number as its digits and a string in quotes.
serialize(obj) ==
  [i \in DOMAIN obj |->
     LET value == replacer(obj[i]) IN
     CASE value.json = "rawJSON" -> value.text
       [] value.json = "number" -> Literal("int", value.k)
       [] value.json = "string" -> Literal("string", value.k)]

----------------------------------------------------------------------------
(* StatementGenerator: dropTable, insert, createTable.  A string is the     *)
(* sequence of its pieces; a table name has "." as a piece of its own.       *)

RECURSIVE Join(_, _)
\* parts.join(sep)
Join(parts, sep) ==
  IF Len(parts) = 0 THEN <<>>
  ELSE IF Len(parts) = 1 THEN parts[1]
  ELSE parts[1] \o sep \o Join(Tail(parts), sep)

\* StatementGenerator.quoteIdentifier: split on '.', quote every part, join.
quoteIdentifier(tableName) ==
  LET RECURSIVE Split(_, _)
      \* The parts of the rest of the string, part being the one begun.
      Split(rest, part) ==
        IF Len(rest) = 0 THEN <<part>>
        ELSE IF Head(rest) = "." THEN <<part>> \o Split(Tail(rest), <<>>)
        ELSE Split(Tail(rest), Append(part, Head(rest)))
      parts == Split(tableName, <<>>)
  IN Join([i \in DOMAIN parts |-> <<"\"">> \o parts[i] \o <<"\"">>], <<".">>)

\* StatementGenerator.dropTable
dropTable(tableName) ==
  <<"DROP TABLE ">> \o quoteIdentifier(tableName) \o <<";">>

\* insert that updates every key, the primary keys included.
InsertUpdatingAllKeys(tableName, keys, primaryKeys) ==
  LET Quoted(list) == Join([i \in DOMAIN list |-> <<"\"", list[i], "\"">>], <<", ">>)
      query == <<"INSERT INTO ">> \o quoteIdentifier(tableName) \o <<" (">> \o Quoted(keys)
               \o <<") VALUES (">> \o Join([i \in DOMAIN keys |-> <<"?">>], <<", ">>)
               \o <<")">>
  IN IF Truthy(primaryKeys) /\ Len(primaryKeys.items) > 0
       THEN query \o <<" ON CONFLICT (">> \o Quoted(primaryKeys.items)
            \o <<") DO UPDATE SET ">>
            \o Join([i \in DOMAIN keys |->
                       <<"\"", keys[i], "\"", " = excluded.", "\"", keys[i], "\"">>],
                    <<", ">>)
            \o <<";">>
       ELSE query \o <<" ON CONFLICT DO NOTHING">> \o <<";">>

\* StatementGenerator.insert
insert(tableName, keys, primaryKeys) ==
  LET Quoted(list) == Join([i \in DOMAIN list |-> <<"\"", list[i], "\"">>], <<", ">>)
      query == <<"INSERT INTO ">> \o quoteIdentifier(tableName) \o <<" (">> \o Quoted(keys)
               \o <<") VALUES (">> \o Join([i \in DOMAIN keys |-> <<"?">>], <<", ">>)
               \o <<")">>
  IN IF Truthy(primaryKeys) /\ Len(primaryKeys.items) > 0
       THEN LET includes(key) == \E j \in DOMAIN primaryKeys.items : primaryKeys.items[j] = key
                nonPrimaryKeys == SelectSeq(keys, LAMBDA key : ~includes(key))
            IN query \o <<" ON CONFLICT (">> \o Quoted(primaryKeys.items)
               \o <<") DO UPDATE SET ">>
               \o Join([i \in DOMAIN nonPrimaryKeys |->
                          <<"\"", nonPrimaryKeys[i], "\"", " = excluded.", "\"",
                            nonPrimaryKeys[i], "\"">>],
                       <<", ">>)
               \o <<";">>
       ELSE query \o <<" ON CONFLICT DO NOTHING">> \o <<";">>

RECURSIVE buildColumnDefinition(_, _)
\* StatementGenerator.buildColumnDefinition.  An object (a schema, the
\* properties of an OBJECT column) is the sequence of its entries in key order.
buildColumnDefinition(colName, definition) ==
  LET toUpperCase(str) ==
        CASE str = "integer" -> "INTEGER"
          [] str = "double" -> "DOUBLE"
          [] str = "object" -> "OBJECT"
          [] str = "strict" -> "STRICT"
  IN
  IF "properties" \in DOMAIN definition
    THEN LET objectMode == IF "mode" \in DOMAIN definition /\ definition.mode # ""
                             THEN <<"(", toUpperCase(definition.mode), ")">> ELSE <<>>
             props == definition.properties
             objectProps == Join([i \in DOMAIN props |->
                                    buildColumnDefinition(props[i].key, props[i].value)],
                                 <<", ">>)
         IN <<"\"", colName, "\"", " OBJECT">> \o objectMode \o <<" AS (">> \o objectProps
            \o <<")">>
    ELSE <<"\"", colName, "\"", " ", toUpperCase(definition.type)>>
         \o (IF "notNull" \in DOMAIN definition /\ definition.notNull
               THEN <<" NOT NULL">> ELSE <<>>)
         \o (IF "defaultValue" \in DOMAIN definition
               THEN <<" DEFAULT ", definition.defaultValue>> ELSE <<>>)
         \o (IF "generatedAlways" \in DOMAIN definition /\ definition.generatedAlways # ""
               THEN <<" GENERATED ALWAYS AS (", definition.generatedAlways, ")">> ELSE <<>>)

\* StatementGenerator.createTable: the statement, or the error of the
\* validation of the first offending column.
createTable(tableName, schema, options) ==
  LET Invalid(definition) ==
        /\ "type" \in DOMAIN definition /\ definition.type # "object"
        /\ "defaultValue" \in DOMAIN definition
        /\ "generatedAlways" \in DOMAIN definition /\ definition.generatedAlways # ""
      invalid == SelectSeq(schema, LAMBDA e : Invalid(e.value))
      columns == Join([i \in DOMAIN schema |->
                         buildColumnDefinition(schema[i].key, schema[i].value)], <<", ">>)
      keyed == SelectSeq(schema, LAMBDA e : "primaryKey" \in DOMAIN e.value
                                              /\ e.value.primaryKey)
      primaryKeys == Join([i \in DOMAIN keyed |-> <<"\"", keyed[i].key, "\"">>], <<", ">>)
      primaryKeyClause == IF Len(primaryKeys) > 0
                            THEN <<", PRIMARY KEY(">> \o primaryKeys \o <<")">> ELSE <<>>
      Has(f) == f \in DOMAIN options
      partition == IF Has("partitionedBy") /\ Len(options.partitionedBy) > 0
                     THEN <<" PARTITIONED BY (">>
                          \o Join([i \in DOMAIN options.partitionedBy |->
                                     <<"\"", options.partitionedBy[i], "\"">>], <<", ">>)
                          \o <<")">>
                     ELSE <<>>
      cluster == IF Has("clusteredBy") /\ Has("numberOfShards")
                   THEN <<" CLUSTERED BY (\"", options.clusteredBy, "\") INTO ",
                          options.numberOfShards, " SHARDS">>
                 ELSE IF Has("clusteredBy")
                   THEN <<" CLUSTERED BY (\"", options.clusteredBy, "\")">>
                 ELSE IF Has("numberOfShards")
                   THEN <<" CLUSTERED INTO ", options.numberOfShards, " SHARDS">>
                 ELSE <<>>
      replicas == IF Has("numberOfReplicas")
                    THEN <<" WITH (number_of_replicas = '", options.numberOfReplicas, "')">>
                    ELSE <<>>
  IN IF Len(invalid) > 0
       THEN [threw |-> TRUE,
             error |-> PlainError(<<"Column \"", invalid[1].key,
                                    "\" cannot have both DEFAULT and GENERATED ALWAYS values">>)]
       ELSE [threw |-> FALSE,
             value |-> <<"CREATE TABLE ">> \o quoteIdentifier(tableName) \o <<" (">>
                       \o columns \o primaryKeyClause \o <<")">> \o partition \o cluster
                       \o replicas \o <<";">>]

----------------------------------------------------------------------------
(* CrateDBClient._makeRequest *)

\* Buffer.byteLength of a gzip-compressed body (zlib is outside the repository):
\* a fixed header plus a tenth of the input.
GzipLength(n) == 20 + (n \div 10)

\* The compression condition with >= in place of >.
CompressesAtThreshold(size) ==
  cfg.enableCompression /\ size > 0 /\ size >= cfg.compressionThreshold

\* The compression branch of _makeRequest is taken (every configuration of the
\* model carries a compressionThreshold, so the ?? 1024 fallback is not used).
Compresses(size) ==
  cfg.enableCompression /\ size > 0 /\ size > cfg.compressionThreshold

\* The request handed to http.request: { ...options, headers }.
MakeRequestSpread(options, headers) ==
  Spread(options, [headers |-> headers])

\* const headers = options.headers: the same object, not a copy.
AliasHeaders(h) == [shared |-> TRUE, fields |-> h]

\* const headers = { ...options.headers }: a new object with the same fields.
CopyHeaders(h) == [shared |-> FALSE, fields |-> h]

\* headers['Content-Encoding'] = 'gzip', run once gzip has succeeded.
SetContentEncoding(headers) ==
  [headers EXCEPT !.fields = Spread(@, [ContentEncoding |-> "gzip"])]

\* The local headers object of _makeRequest when the request is written.
RequestHeaders(options, size) ==
  IF Compresses(size) THEN SetContentEncoding(CopyHeaders(options.headers))
  ELSE CopyHeaders(options.headers)

\* What the headers object of this.httpOptions holds after _makeRequest wrote its
\* request: a write through a shared reference shows in it.
HeadersLeft(options, size) ==
  LET h == RequestHeaders(options, size) IN
  IF h.shared THEN h.fields ELSE options.headers

WireRequest(options, size) ==
  LET headers == RequestHeaders(options, size).fields
      o == MakeRequestSpread(options, headers)
  IN [verb |-> options.body.verb, n |-> options.body.n,
      agent |-> o.agent, headers |-> o.headers,
      requestUncompressed |-> size,
      request |-> IF Compresses(size) THEN GzipLength(size) ELSE size]

\* The rejection of the catch (parseErr) branch of the 'end' handler.
ParseFailure(err) ==
  PlainError(<<"Failed to parse response: ">> \o err.message)

\* The 'end' handler of the response: decode, then resolve or reject by status.
OnEnd(r, resp) ==
  LET parsed == deserialize(resp.body) IN
  IF parsed.threw THEN [state |-> "rejected", error |-> ParseFailure(parsed.error)]
  ELSE IF resp.status = 200
    THEN [state |-> "resolved",
          value |-> Spread(parsed.value,
                           [sizes |-> [response |-> resp.len, request |-> r.request,
                                       requestUncompressed |-> r.requestUncompressed]])]
    ELSE LET e == fromResponse(parsed.value, resp.status) IN
         IF e.threw THEN [state |-> "rejected", error |-> ParseFailure(e.error)]
         ELSE [state |-> "rejected", error |-> e.error]

\* req.on('error'): the promise rejects with a new Error built from the message.
OnRequestError(err) ==
  [state |-> "rejected", error |-> PlainError(<<"Request failed: ">> \o err.message)]

\* .catch((error) => reject(error)) of the gzip promise.
OnGzipError(err) == [state |-> "rejected", error |-> err]

\* How the promise of _makeRequest settles for what the network delivered.
\* The response has handlers for 'data' and 'end' only: when its stream is
\* aborted after the headers, 'end' never fires, the request emits no 'error'
\* any more, and the promise stays pending.
MakeRequestOutcome(r, resp) ==
  CASE resp.t = "response" -> OnEnd(r, resp)
    [] resp.t = "socketError" -> OnRequestError(resp.err)
    [] resp.t = "gzipError" -> OnGzipError(resp.err)
    [] resp.t = "aborted" -> [state |-> "pending"]

----------------------------------------------------------------------------
(* CrateDBClient._transformResponse, execute, executeMany *)

\* The first index that carries the name.
FirstIndex(cols, c) ==
  CHOOSE i \in DOMAIN cols : cols[i] = c /\ \A j \in DOMAIN cols : j < i => cols[j] # c

\* The index forEach leaves in obj[col]: the last one that carries the name.
LastIndex(cols, c) ==
  CHOOSE i \in DOMAIN cols : cols[i] = c /\ \A j \in DOMAIN cols : j > i => cols[j] # c

\* One row of the map() in _transformResponse.
RowToObject(cols, row) ==
  IF row.shape # "array" THEN row
  ELSE ObjectRow([c \in {cols[i] : i \in DOMAIN cols} |-> row.cells[LastIndex(cols, c)]])

\* rowMode is a parameter with the default 'object', which an undefined
\* argument selects.
_transformResponse(response, rowMode) ==
  IF (IF rowMode = Undefined THEN "object" ELSE rowMode.s) # "object" THEN response
  ELSE IF "rows" \in DOMAIN response /\ "cols" \in DOMAIN response
    THEN [response EXCEPT
            !.rows = [i \in DOMAIN response.rows |-> RowToObject(response.cols, response.rows[i])]]
    ELSE response

\* config?.rowMode ?? this.cfg.rowMode
EffectiveRowMode(config) ==
  IF Prop(config, "rowMode") = Undefined THEN cfg.rowMode ELSE config.rowMode

\* The spread with the client's options last: they win over the per-call ones.
ExecuteOptionsBaseWins(config, body) ==
  LET over == IF Prop(config, "httpOptions") = Undefined THEN <<>> ELSE config.httpOptions
  IN Spread(Spread(over, httpOptions), [body |-> body])

\* { ...this.httpOptions, ...config?.httpOptions, body }
ExecuteOptions(config, body) ==
  LET over == IF Prop(config, "httpOptions") = Undefined THEN <<>> ELSE config.httpOptions
  IN Spread(Spread(httpOptions, over), [body |-> body])

\* const options = { ...this.httpOptions, body } of executeMany.
ExecuteManyOptions(body) == Spread(httpOptions, [body |-> body])

\* The catch block of execute: server and decode errors pass, the rest is wrapped.
ExecuteCatch(error) ==
  IF error.kind \in {"CrateDBError", "DeserializationError"} THEN error
  ELSE RequestError(<<"CrateDB request failed: ">> \o error.message, error)

\* The catch block of executeMany.
ExecuteManyCatch(error) ==
  IF error.kind \in {"CrateDBError", "DeserializationError"} THEN error
  ELSE RequestError(<<"CrateDB bulk request failed: ">> \o error.message, error)

\* _addDurations: the server's duration is copied; wall-clock time is not modelled.
_addDurations(response) ==
  Spread(response,
         [durations |-> [cratedb |-> IF "duration" \in DOMAIN response
                                       THEN response.duration ELSE 0]])

\* The positions counted from 1 instead of the indices counted from 0.
RECURSIVE BulkErrorsFromOne(_, _)
BulkErrorsFromOne(results, i) ==
  IF i > Len(results) THEN <<>>
  ELSE (IF results[i].rowcount = -2 THEN <<i>> ELSE <<>>) \o BulkErrorsFromOne(results, i + 1)

\* The indices (0-based) of the results whose rowcount is -2, ascending.
RECURSIVE BulkErrors(_, _)
BulkErrors(results, i) ==
  IF i > Len(results) THEN <<>>
  ELSE (IF results[i].rowcount = -2 THEN <<i - 1>> ELSE <<>>) \o BulkErrors(results, i + 1)

\* How execute settles once the promise of _makeRequest has settled.
ExecuteSettle(promise, rowMode) ==
  IF promise.state = "resolved"
    THEN [state |-> "returned",
          value |-> _addDurations(_transformResponse(promise.value, rowMode))]
    ELSE [state |-> "threw", error |-> ExecuteCatch(promise.error)]

\* How executeMany settles once the promise of _makeRequest has settled.
ExecuteManySettle(promise) ==
  IF promise.state = "resolved"
    THEN LET res == _addDurations(promise.value) IN
         [state |-> "returned",
          value |-> Spread(res, [bulk_errors |->
                      BulkErrors(IF "results" \in DOMAIN res THEN res.results ELSE <<>>, 1)])]
    ELSE [state |-> "threw", error |-> ExecuteManyCatch(promise.error)]

\* Settlement of the call that issued request r.
Settle(r, promise) ==
  IF r.via = "executeMany" THEN ExecuteManySettle(promise)
  ELSE ExecuteSettle(promise, r.rowMode)

----------------------------------------------------------------------------
(* Cursor: statements and the pure parts of its methods *)

\* The statement texts the cursor sends.
Stmt(verb, n) == [verb |-> verb, n |-> n]

\* Buffer.byteLength of the serialized payload {"stmt": ...} of a statement.
BodySize(stmt) ==
  CASE stmt.verb = "BEGIN" -> 16
    [] stmt.verb = "COMMIT" -> 17
    [] stmt.verb = "DECLARE" -> 101
    [] stmt.verb = "FETCH NEXT" -> 47
    [] stmt.verb = "FETCH" -> 44
    [] stmt.verb = "FETCH ALL" -> 46
    [] stmt.verb = "CLOSE" -> 37
    [] OTHER -> 100

\* The per-call configuration Cursor._execute passes to client.execute.
CursorQueryConfig == [rowMode |-> Str("object"), httpOptions |-> cursorOptions]

\* A catch block that rethrows whatever it caught.
CursorCatchRethrow(stmt, error) == error

\* The catch block of Cursor._execute.
CursorCatch(stmt, error) ==
  IF error.kind = "CrateDBError" THEN error
  ELSE RequestError(<<"Error executing SQL: ", stmt.verb, ". Details: ">> \o error.message,
                    error)

\* Cursor._execute after client.execute settled: the rows, or the error thrown.
CursorExecuteResult(stmt, s) ==
  IF s.state = "threw" THEN [state |-> "threw", error |-> CursorCatch(stmt, s.error)]
  ELSE IF "rows" \notin DOMAIN s.value \/ "rowcount" \notin DOMAIN s.value
          \/ s.value.rowcount = 0
    THEN [state |-> "returned", rows |-> <<>>]
    ELSE [state |-> "returned", rows |-> s.value.rows]

\* The error of _ensureOpen.
NotOpenError ==
  PlainError(<<"Cursor is not open. Call open() before performing this operation.">>)

\* The error of open() on an open cursor.
AlreadyOpenError == PlainError(<<"Cursor is already open">>)

\* Results of calls, as the caller sees them.
Returned(v) == [state |-> "returned", value |-> v, error |-> NoErr]
Threw(e) == [state |-> "threw", value |-> Null, error |-> e]
RowsValue(rows) == [json |-> "rows", rows |-> rows]
ListValue(items) == [json |-> "list", items |-> items]
RowValue(row) == [json |-> "row", row |-> row]
ResponseValue(r) == [json |-> "response", response |-> r]

----------------------------------------------------------------------------
(* The server and the network *)

Min(a, b) == IF a < b THEN a ELSE b

\* The server can carry out the statement in its session's present state.
ServerAccepts(r) ==
  CASE r.verb = "DECLARE" -> ~srvDeclared
    [] r.verb \in {"FETCH NEXT", "FETCH", "FETCH ALL", "CLOSE"} -> srvDeclared
    [] OTHER -> TRUE

\* The position of the server-side cursor after the statement.
ServerPos(r) ==
  CASE r.verb = "DECLARE" -> 0
    [] r.verb = "FETCH NEXT" -> Min(srvPos + 1, nRows)
    [] r.verb = "FETCH" -> Min(srvPos + r.n, nRows)
    [] r.verb = "FETCH ALL" -> nRows
    [] OTHER -> srvPos

\* The decoded 200 body the server answers the statement with.
ServerReply(r) ==
  CASE r.verb \in {"FETCH NEXT", "FETCH", "FETCH ALL"} -> RowsBody(Segment(srvPos, ServerPos(r)))
    [] r.verb = "SELECT" -> RowsBody(Segment(0, nRows))
    [] r.verb = "PRIMARY KEYS" ->
         [cols |-> <<"column_name">>, rows |-> <<ArrayRow(<<"id">>)>>, rowcount |-> 1,
          duration |-> 1]
    [] OTHER -> EmptyBody

\* The decoded 200 bodies the server can answer the statement with: a bulk
\* statement succeeds or fails (rowcount -2) row by row, and a body may come
\* without results.
ServerReplies(r) ==
  IF r.verb = "BULK"
    THEN {BulkBody(res) : res \in [1..r.n -> {[rowcount |-> 1], [rowcount |-> -2]}]}
         \cup {[cols |-> <<>>, duration |-> 1]}
    ELSE {ServerReply(r)}

\* Everything the network can deliver for request r.
Outcomes(r) ==
  (IF ServerAccepts(r)
     THEN {[t |-> "response", status |-> 200, body |-> Json(b), len |-> 80,
            processed |-> TRUE] : b \in ServerReplies(r)} \cup
          {
           [t |-> "response", status |-> 200, body |-> Garbage, len |-> 40,
            processed |-> TRUE],
           [t |-> "socketError", err |-> SystemError("ECONNRESET"), processed |-> TRUE]}
     ELSE {})
  \cup {[t |-> "response", status |-> 400, body |-> Json(ErrorBody(tr)), len |-> 60,
         processed |-> FALSE] : tr \in BOOLEAN}
  \cup {[t |-> "response", status |-> 502, body |-> Garbage, len |-> 40, processed |-> FALSE],
        [t |-> "response", status |-> 500, body |-> Json([detail |-> Str("unavailable")]),
         len |-> 30, processed |-> FALSE]}
  \cup {[t |-> "socketError", err |-> e, processed |-> FALSE] : e \in SystemErrors}
  \cup {[t |-> "aborted", processed |-> ServerAccepts(r)]}

----------------------------------------------------------------------------
(* Cursor methods, one step at a time: pc is "start" when the method is     *)
(* called and the statement it awaits afterwards; res is what _execute gave *)

StepThrow(e) == [act |-> "throw", error |-> e]
StepSend(stmt) == [act |-> "send", stmt |-> stmt]
StepReturn(v, openAfter, destroy) ==
  [act |-> "return", value |-> v, isOpen |-> openAfter, destroy |-> destroy]

\* _ensureOpen with the check left out.
EnsureOpenSkipped(rest) == rest

\* Cursor._ensureOpen, followed by the rest of the method.
_ensureOpen(rest) == IF ~isOpen THEN StepThrow(NotOpenError) ELSE rest

\* open() that goes on to DECLARE although BEGIN failed.
OpenIgnoringBeginFailure(pc, res) ==
  IF pc = "start"
    THEN IF isOpen THEN StepThrow(AlreadyOpenError) ELSE StepSend(Stmt("BEGIN", 0))
  ELSE IF pc = "BEGIN" THEN StepSend(Stmt("DECLARE", 0))
  ELSE IF res.state = "threw" THEN StepThrow(res.error)
  ELSE StepReturn(Null, TRUE, FALSE)

\* Cursor.open
open(pc, res) ==
  IF pc = "start"
    THEN IF isOpen THEN StepThrow(AlreadyOpenError) ELSE StepSend(Stmt("BEGIN", 0))
  ELSE IF res.state = "threw" THEN StepThrow(res.error)
  ELSE IF pc = "BEGIN" THEN StepSend(Stmt("DECLARE", 0))
  ELSE StepReturn(Null, TRUE, FALSE)

\* fetchOne() that fetches two rows and hands out the first.
FetchOneOfTwo(pc, res) ==
  IF pc = "start" THEN _ensureOpen(StepSend(Stmt("FETCH", 2)))
  ELSE IF res.state = "threw" THEN StepThrow(res.error)
  ELSE StepReturn(IF Len(res.rows) > 0 THEN RowValue(res.rows[1]) ELSE Null, isOpen, FALSE)

\* Cursor.fetchOne
fetchOne(pc, res) ==
  IF pc = "start" THEN _ensureOpen(StepSend(Stmt("FETCH NEXT", 0)))
  ELSE IF res.state = "threw" THEN StepThrow(res.error)
  ELSE StepReturn(IF Len(res.rows) > 0 THEN RowValue(res.rows[1]) ELSE Null, isOpen, FALSE)

\* fetchMany() that asks for a single row whatever the size.
FetchManyOneByOne(size, pc, res) ==
  IF pc = "start"
    THEN IF size < 1 THEN StepReturn(RowsValue(<<>>), isOpen, FALSE)
         ELSE _ensureOpen(StepSend(Stmt("FETCH", 1)))
  ELSE IF res.state = "threw" THEN StepThrow(res.error)
  ELSE StepReturn(RowsValue(res.rows), isOpen, FALSE)

\* Cursor.fetchMany
fetchMany(size, pc, res) ==
  IF pc = "start"
    THEN IF size < 1 THEN StepReturn(RowsValue(<<>>), isOpen, FALSE)
         ELSE _ensureOpen(StepSend(Stmt("FETCH", size)))
  ELSE IF res.state = "threw" THEN StepThrow(res.error)
  ELSE StepReturn(RowsValue(res.rows), isOpen, FALSE)

\* Cursor.fetchAll
fetchAll(pc, res) ==
  IF pc = "start" THEN _ensureOpen(StepSend(Stmt("FETCH ALL", 0)))
  ELSE IF res.state = "threw" THEN StepThrow(res.error)
  ELSE StepReturn(RowsValue(res.rows), isOpen, FALSE)

\* close() that leaves the agent alone.
CloseWithoutDestroy(pc, res) ==
  IF pc = "start" THEN _ensureOpen(StepSend(Stmt("CLOSE", 0)))
  ELSE IF res.state = "threw" THEN StepThrow(res.error)
  ELSE IF pc = "CLOSE" THEN StepSend(Stmt("COMMIT", 0))
  ELSE StepReturn(Null, FALSE, FALSE)

\* Cursor.close
close(pc, res) ==
  IF pc = "start" THEN _ensureOpen(StepSend(Stmt("CLOSE", 0)))
  ELSE IF res.state = "threw" THEN StepThrow(res.error)
  ELSE IF pc = "CLOSE" THEN StepSend(Stmt("COMMIT", 0))
  ELSE StepReturn(Null, FALSE, TRUE)

MethodNames == {"open", "fetchOne", "fetchMany", "fetchAll", "close"}
FetchNames == {"fetchOne", "fetchMany", "fetchAll"}

\* The next step of the method in progress.
MethodStepOf(m, res) ==
  CASE m.name = "open" -> open(m.pc, res)
    [] m.name = "fetchOne" -> fetchOne(m.pc, res)
    [] m.name = "fetchMany" -> fetchMany(m.size, m.pc, res)
    [] m.name = "fetchAll" -> fetchAll(m.pc, res)
    [] m.name = "close" -> close(m.pc, res)

\* The rows a fetch handed to its caller.
ValueRows(v) ==
  CASE v.json = "rows" -> v.rows
    [] v.json = "row" -> <<v.row>>
    [] OTHER -> <<>>

Call(name, size) == [name |-> name, pc |-> "start", size |-> size]

----------------------------------------------------------------------------
(* State machine *)

\* The configurations a client is constructed with: {} (the defaults),
\* { rowMode: 'object', compressionThreshold: 100 } and
\* { rowMode: undefined, enableCompression: false, compressionThreshold: 0 }.
Configs ==
  {defaultConfig,
   [defaultConfig EXCEPT !.rowMode = Str("object"), !.compressionThreshold = 100],
   [defaultConfig EXCEPT !.rowMode = Undefined, !.enableCompression = FALSE,
                         !.compressionThreshold = 0]}

\* No library function applied yet.
NoCall == [fn |-> "none"]

Init ==
  /\ cfg \in Configs
  /\ nRows \in 0..MaxRows
  /\ owner = "none"
  /\ isOpen = FALSE
  /\ agentSockets = 0
  /\ agentDestroyed = FALSE
  /\ srvDeclared = FALSE
  /\ srvPos = 0
  /\ top = Idle
  /\ meth = NoMeth
  /\ gen = NoGen
  /\ stream = NoStream
  /\ req = NoReq
  /\ settled = NoRes
  /\ mret = NoRes
  /\ sent = <<>>
  /\ yielded = <<>>
  /\ lastResp = NoResp
  /\ execErr = NoErr
  /\ got = <<>>
  /\ clean = TRUE
  /\ baseHeaders = ConstructedHeaders
  /\ now = 0
  /\ cursorNames = <<>>
  /\ input = NoCall
  /\ output = NoCall

\* The caller's record of a call in progress.
Running(name, arg) ==
  [name |-> name, arg |-> arg, state |-> "running", value |-> Null, error |-> NoErr]

\* The caller starts a new call.
StartCall(name, arg) ==
  /\ top.state = "idle"
  /\ top' = Running(name, arg)

\* new Cursor(client, sql): a cursor of its own agent, not open, and on the
\* server no cursor of its name yet.
NewCursor(who) ==
  /\ owner' = who
  /\ isOpen' = FALSE
  /\ agentSockets' = 0
  /\ agentDestroyed' = FALSE
  /\ srvDeclared' = FALSE
  /\ srvPos' = 0
  /\ got' = <<>>
  /\ clean' = TRUE

\* getPrimaryKeys after execute resolved: the first cell of every row.
PrimaryKeysResult(response) ==
  IF "rows" \notin DOMAIN response \/ Len(response.rows) = 0 THEN ListValue(<<>>)
  ELSE ListValue([i \in DOMAIN response.rows |->
                   IF response.rows[i].shape = "array"
                     THEN Str(response.rows[i].cells[1]) ELSE Undefined])

\* insertMany after executeMany resolved: durations.preparation is added
\* (wall-clock time is not modelled).
InsertManyResult(response) ==
  [response EXCEPT !.durations = Spread(@, [preparation |-> 0])]

\* The caller's call once the promise of execute / executeMany has settled:
\* insert returns it as it is, insertMany and getPrimaryKeys work on the response.
TopSettled(t, s) ==
  IF s.state = "threw" THEN [t EXCEPT !.state = "threw", !.error = s.error]
  ELSE [t EXCEPT !.state = "returned",
                 !.value = CASE t.name = "getPrimaryKeys" -> PrimaryKeysResult(s.value)
                             [] t.name = "insertMany" -> ResponseValue(InsertManyResult(s.value))
                             [] OTHER -> ResponseValue(s.value)]

\* client.execute / executeMany up to the point where the request is on the wire
\* (or gzip failed): sent0 is the record of the requests sent so far.
Send(caller, body, options, size, via, config, gzipFails, sent0) ==
  LET r == Spread(WireRequest(options, size),
                  [via |-> via, config |-> config, rowMode |-> EffectiveRowMode(config)])
      z == [t |-> "gzipError", err |-> ZlibError, processed |-> FALSE]
      s == Settle(r, MakeRequestOutcome(r, z))
  IN /\ gzipFails => Compresses(size)
     /\ baseHeaders' = IF gzipFails THEN baseHeaders ELSE HeadersLeft(options, size)
     /\ IF gzipFails
          THEN /\ req' = NoReq
               /\ settled' = s
               /\ lastResp' = z
               /\ execErr' = s.error
               /\ sent' = sent0
               /\ top' = IF via = "cursor" THEN top ELSE TopSettled(caller, s)
          ELSE /\ req' = r
               /\ settled' = NoRes
               /\ lastResp' = NoResp
               /\ execErr' = execErr
               /\ sent' = Append(sent0, Spread(r, [resp |-> NoResp]))
               /\ top' = IF via = "cursor" THEN top ELSE caller

\* client.createCursor(sql)
CreateCursor ==
  /\ top.state = "idle"
  /\ NewCursor("caller")
  /\ UNCHANGED <<libVars, baseHeaders, cfg, nRows, top, meth, gen, stream, req, settled,
                 mret, sent, yielded,
                 lastResp, execErr>>

\* The caller calls open(), fetchOne(), fetchMany(n), fetchAll() or close().
CallMethod(name, size) ==
  /\ owner = "caller"
  /\ StartCall(name, size)
  /\ meth' = Call(name, size)
  /\ UNCHANGED <<libVars, baseHeaders, cfg, nRows, cursorVars, serverVars, gen, stream,
                 req, settled, mret,
                 sent, yielded, lastResp, execErr, got, clean>>

\* The method in progress runs to its next await, return or throw.
MethodStep(gzipFails) ==
  /\ meth # NoMeth
  /\ req = NoReq
  /\ meth.pc = "start" \/ settled # NoRes
  /\ LET res == IF meth.pc = "start" THEN NoRes
                ELSE CursorExecuteResult(Stmt(meth.pc, meth.size), settled)
         step == MethodStepOf(meth, res)
     IN \/ /\ step.act = "send"
           /\ Send(top, step.stmt, ExecuteOptions(CursorQueryConfig, step.stmt),
                   BodySize(step.stmt), "cursor", CursorQueryConfig, gzipFails, sent)
           /\ meth' = [meth EXCEPT !.pc = step.stmt.verb]
           /\ agentSockets' = IF gzipFails THEN agentSockets ELSE 1
           /\ UNCHANGED <<mret, isOpen, agentDestroyed, got, clean>>
        \/ /\ step.act = "throw"
           /\ UNCHANGED top
           /\ ~gzipFails
           /\ mret' = Threw(step.error)
           /\ meth' = NoMeth
           /\ settled' = NoRes
           /\ clean' = IF meth.name \in FetchNames /\ meth.pc # "start" THEN FALSE ELSE clean
           /\ got' = IF clean' THEN got ELSE <<>>
           /\ UNCHANGED <<req, lastResp, execErr, sent, isOpen, agentSockets, agentDestroyed,
                          baseHeaders>>
        \/ /\ step.act = "return"
           /\ UNCHANGED top
           /\ ~gzipFails
           /\ mret' = Returned(step.value)
           /\ meth' = NoMeth
           /\ settled' = NoRes
           /\ isOpen' = step.isOpen
           /\ agentSockets' = IF step.destroy THEN 0 ELSE agentSockets
           /\ agentDestroyed' = (agentDestroyed \/ step.destroy)
           /\ clean' = IF meth.name = "open" THEN TRUE ELSE clean
           /\ got' = CASE meth.name = "open" -> <<>>
                       [] meth.name \in FetchNames /\ clean -> got \o ValueRows(step.value)
                       [] OTHER -> got
           /\ UNCHANGED <<req, lastResp, execErr, sent, baseHeaders>>
  /\ UNCHANGED <<libVars, cfg, nRows, owner, serverVars, gen, stream, yielded>>

\* The network delivers an outcome for the request in flight; the server has
\* carried the statement out or not; client.execute settles.
Respond(o) ==
  /\ req # NoReq
  /\ o \in Outcomes(req)
  /\ LET promise == MakeRequestOutcome(req, o)
         s == IF promise.state = "pending" THEN NoRes ELSE Settle(req, promise)
     IN
       /\ settled' = s
       /\ execErr' = IF s.state = "threw" THEN s.error ELSE execErr
       /\ top' = IF req.via = "cursor" \/ s = NoRes THEN top ELSE TopSettled(top, s)
  /\ lastResp' = o
  /\ req' = NoReq
  /\ srvPos' = IF o.processed THEN ServerPos(req) ELSE srvPos
  /\ srvDeclared' = IF ~o.processed THEN srvDeclared
                    ELSE CASE req.verb = "DECLARE" -> TRUE
                           [] req.verb = "CLOSE" -> FALSE
                           [] OTHER -> srvDeclared
  /\ agentSockets' = IF req.agent.id # "cursor" THEN agentSockets
                     ELSE IF o.t \in {"socketError", "aborted"} THEN 0 ELSE 1
  /\ sent' = [sent EXCEPT ![Len(sent)] = [@ EXCEPT !.resp = o]]
  /\ UNCHANGED <<libVars, baseHeaders, cfg, nRows, owner, isOpen, agentDestroyed, meth,
                 gen, stream,
                 mret, yielded, got, clean>>

\* The awaited Cursor method settles the caller's call.
TopMethodDone ==
  /\ top.state = "running"
  /\ top.name \in MethodNames
  /\ meth = NoMeth
  /\ mret # NoRes
  /\ top' = [top EXCEPT !.state = mret.state, !.value = mret.value, !.error = mret.error]
  /\ UNCHANGED <<libVars, baseHeaders, cfg, nRows, cursorVars, serverVars, meth, gen,
                 stream, req, settled,
                 mret, sent, yielded, lastResp, execErr, got, clean>>

----------------------------------------------------------------------------
(* client.execute and client.executeMany called by the caller *)

customAgent == [id |-> "custom", keepAlive |-> TRUE, maxSockets |-> 5]

\* No per-call configuration.
NoConfig == [rowMode |-> Undefined, httpOptions |-> Undefined]

\* The per-call configurations a caller passes to execute.
QueryConfigs ==
  {[rowMode |-> rm, httpOptions |-> Undefined] :
     rm \in {Undefined, Str("array"), Str("object")}}
  \cup {[rowMode |-> Undefined, httpOptions |-> [agent |-> customAgent]]}

BodySizes == {100, 2000}

\* execute(stmt, args, config)
CallExecute(config, size, serializable, gzipFails) ==
  /\ top.state = "idle"
  /\ IF ~serializable
       THEN /\ ~gzipFails
            /\ top' = [name |-> "execute", arg |-> 0, state |-> "threw", value |-> Null,
                       error |-> RequestError(<<"Serialization failed: ", "cyclic">>, NoErr)]
            /\ UNCHANGED <<sent, lastResp, execErr, settled, req, baseHeaders>>
       ELSE /\ Send(Running("execute", 0), Stmt("SELECT", 0), ExecuteOptions(config, Stmt("SELECT", 0)), size,
                    "execute", config, gzipFails, <<>>)
  /\ UNCHANGED <<libVars, cfg, nRows, cursorVars, serverVars, meth, gen, stream, mret, yielded,
                 got, clean>>

\* executeMany(stmt, bulk_args)
CallExecuteMany(n, size, serializable, gzipFails) ==
  /\ top.state = "idle"
  /\ IF ~serializable
       THEN /\ ~gzipFails
            /\ top' = [name |-> "executeMany", arg |-> n, state |-> "threw", value |-> Null,
                       error |-> RequestError(<<"Serialization failed: ", "cyclic">>, NoErr)]
            /\ UNCHANGED <<sent, lastResp, execErr, settled, req, baseHeaders>>
       ELSE /\ Send(Running("executeMany", n), Stmt("BULK", n), ExecuteManyOptions(Stmt("BULK", n)), size,
                    "executeMany", NoConfig, gzipFails, <<>>)
  /\ UNCHANGED <<libVars, cfg, nRows, cursorVars, serverVars, meth, gen, stream, mret, yielded,
                 got, clean>>

----------------------------------------------------------------------------
(* insert, insertMany and getPrimaryKeys called by the caller *)

\* A call that threw before it awaited anything.
ThrewAtOnce(name, args, msg) ==
  [name |-> name, arg |-> args, state |-> "threw", value |-> Null,
   error |-> PlainError(<<msg>>)]

\* The arguments an untyped caller passes.
TableNames == {Str("t"), Str(""), Num(7), Undefined}
InsertObjects == {Obj([id |-> 1, name |-> "Alice"]), Null, Arr(<<1>>), Str("row")}
PrimaryKeyArgs == {Undefined, Null, Arr(<<"id">>), Str("id"), Str(""), Num(0)}
ObjectArrays ==
  {Arr(<<[id |-> 1]>>), Arr(<<[id |-> 1], [id |-> 2]>>), Arr(<<>>), Obj([id |-> 1]), Undefined}

\* The calls of insert: every argument in turn takes each of its values while
\* the other two are valid, and one call has every argument invalid.
InsertCalls ==
  {<<t, Obj([id |-> 1, name |-> "Alice"]), Null>> : t \in TableNames}
  \cup {<<Str("t"), o, Null>> : o \in InsertObjects}
  \cup {<<Str("t"), Obj([id |-> 1, name |-> "Alice"]), p>> : p \in PrimaryKeyArgs}
  \cup {<<Num(7), Str("row"), Str("id")>>}

\* The calls of insertMany, chosen the same way.
InsertManyCalls ==
  {<<t, Arr(<<[id |-> 1]>>), Null>> : t \in TableNames}
  \cup {<<Str("t"), a, Null>> : a \in ObjectArrays}
  \cup {<<Str("t"), Arr(<<[id |-> 1]>>), p>> : p \in PrimaryKeyArgs}
  \cup {<<Undefined, Arr(<<>>), Num(0)>>}

\* The conflict clause StatementGenerator.insert builds: the number of primary
\* keys of ON CONFLICT (...) DO UPDATE, 0 for ON CONFLICT DO NOTHING.
ConflictKeys(primaryKeys) ==
  IF Truthy(primaryKeys) /\ IsArray(primaryKeys) /\ Len(primaryKeys.items) > 0
    THEN Len(primaryKeys.items) ELSE 0

\* The unique keys of insertMany: a Set filled with Object.keys of every
\* object in turn keeps the order in which the keys were first added.
uniqueKeys(objectArray) ==
  LET RECURSIVE Flat(_)
      Flat(objs) ==
        IF Len(objs) = 0 THEN <<>>
        ELSE [i \in DOMAIN Head(objs) |-> Head(objs)[i].key] \o Flat(Tail(objs))
      RECURSIVE Add(_, _)
      Add(keys, rest) ==
        IF Len(rest) = 0 THEN keys
        ELSE Add(IF \E i \in DOMAIN keys : keys[i] = Head(rest)
                   THEN keys ELSE Append(keys, Head(rest)),
                 Tail(rest))
  IN Add(<<>>, Flat(objectArray))

\* bulkArgs with holes left undefined.
BulkArgsUndefined(objectArray, keys) ==
  [r \in DOMAIN objectArray |->
     [j \in DOMAIN keys |->
        LET obj == objectArray[r]
            own == {i \in DOMAIN obj : obj[i].key = keys[j]}
        IN IF own # {} THEN obj[CHOOSE i \in own : TRUE].value ELSE Undefined]]

\* The bulk arguments of insertMany: hasOwnProperty ? obj[key] : null.
bulkArgs(objectArray, keys) ==
  [r \in DOMAIN objectArray |->
     [j \in DOMAIN keys |->
        LET obj == objectArray[r]
            own == {i \in DOMAIN obj : obj[i].key = keys[j]}
        IN IF own # {} THEN obj[CHOOSE i \in own : TRUE].value ELSE Null]]

\* The body size of the statements of this section.
InsertBodySize == 100

\* insert(tableName, obj, primaryKeys = null)
CallInsert(tableName, obj, primaryKeysArg) ==
  LET primaryKeys == DefaultNull(primaryKeysArg)
      args == [tableName |-> tableName, obj |-> obj, primaryKeys |-> primaryKeysArg]
      stmt == Stmt("INSERT", ConflictKeys(primaryKeys))
  IN
  /\ top.state = "idle"
  /\ IF ~Truthy(tableName) \/ TypeOf(tableName) # "string"
       THEN /\ top' = ThrewAtOnce("insert", args, "tableName must be a valid string")
            /\ UNCHANGED <<sent, lastResp, execErr, settled, req, baseHeaders>>
     ELSE IF ~Truthy(obj) \/ TypeOf(obj) # "object" \/ IsArray(obj)
       THEN /\ top' = ThrewAtOnce("insert", args, "obj must be a valid non-array object")
            /\ UNCHANGED <<sent, lastResp, execErr, settled, req, baseHeaders>>
     ELSE IF Truthy(primaryKeys) /\ ~IsArray(primaryKeys)
       THEN /\ top' = ThrewAtOnce("insert", args, "primaryKeys must be an array or null")
            /\ UNCHANGED <<sent, lastResp, execErr, settled, req, baseHeaders>>
     ELSE Send(Running("insert", args), stmt, ExecuteOptions(NoConfig, stmt),
               InsertBodySize, "execute", NoConfig, FALSE, <<>>)
  /\ UNCHANGED <<libVars, cfg, nRows, cursorVars, serverVars, meth, gen, stream, mret,
                 yielded, got, clean>>

\* insertMany(tableName, objectArray, primaryKeys = null)
CallInsertMany(tableName, objectArray, primaryKeysArg) ==
  LET primaryKeys == DefaultNull(primaryKeysArg)
      args == [tableName |-> tableName, objectArray |-> objectArray,
               primaryKeys |-> primaryKeysArg]
  IN
  /\ top.state = "idle"
  /\ IF ~Truthy(tableName) \/ TypeOf(tableName) # "string"
       THEN /\ top' = ThrewAtOnce("insertMany", args, "tableName must be a valid string.")
            /\ UNCHANGED <<sent, lastResp, execErr, settled, req, baseHeaders>>
     ELSE IF ~IsArray(objectArray) \/ Len(objectArray.items) = 0
       THEN /\ top' = ThrewAtOnce("insertMany", args,
                                  "insertMany requires a non-empty array of objects.")
            /\ UNCHANGED <<sent, lastResp, execErr, settled, req, baseHeaders>>
     ELSE IF Truthy(primaryKeys) /\ ~IsArray(primaryKeys)
       THEN /\ top' = ThrewAtOnce("insertMany", args, "primaryKeys must be an array or null.")
            /\ UNCHANGED <<sent, lastResp, execErr, settled, req, baseHeaders>>
     ELSE LET stmt == Stmt("BULK", Len(objectArray.items)) IN
          Send(Running("insertMany", args), stmt, ExecuteManyOptions(stmt),
               InsertBodySize, "executeMany", NoConfig, FALSE, <<>>)
  /\ UNCHANGED <<libVars, cfg, nRows, cursorVars, serverVars, meth, gen, stream, mret,
                 yielded, got, clean>>

\* getPrimaryKeys(tableName)
CallGetPrimaryKeys(tableName) ==
  LET args == [tableName |-> tableName]
      stmt == Stmt("PRIMARY KEYS", 0)
  IN
  /\ top.state = "idle"
  /\ IF ~Truthy(tableName) \/ TypeOf(tableName) # "string"
       THEN /\ top' = ThrewAtOnce("getPrimaryKeys", args, "tableName must be a valid string")
            /\ UNCHANGED <<sent, lastResp, execErr, settled, req, baseHeaders>>
       ELSE Send(Running("getPrimaryKeys", args), stmt, ExecuteOptions(NoConfig, stmt),
                 InsertBodySize, "execute", NoConfig, FALSE, <<>>)
  /\ UNCHANGED <<libVars, cfg, nRows, cursorVars, serverVars, meth, gen, stream, mret,
                 yielded, got, clean>>

----------------------------------------------------------------------------
(* Cursor.iterate: an async generator driven by its consumer *)

\* The generator ends, by return or by throw: a directly consumed iterate() ends
\* the caller's loop; inside streamQuery the finally block calls close().
GenFinish(r, how) ==
  /\ gen' = [gen EXCEPT !.pc = how, !.batch = <<>>]
  /\ mret' = NoRes
  /\ IF top.name = "iterate"
       THEN /\ top' = [top EXCEPT !.state = r.state, !.error = r.error]
            /\ UNCHANGED <<stream, meth>>
       ELSE /\ stream' = [pc |-> "closing", pending |-> r]
            /\ meth' = Call("close", 0)
            /\ UNCHANGED top

\* for await (... of cursor.iterate(k))
CallIterate(k) ==
  /\ owner = "caller"
  /\ StartCall("iterate", k)
  /\ gen' = [pc |-> "created", size |-> k, batch |-> <<>>]
  /\ UNCHANGED <<libVars, baseHeaders, cfg, nRows, cursorVars, serverVars, meth, stream,
                 req, settled, mret,
                 sent, yielded, lastResp, execErr, got, clean>>

\* The generator body starts: _ensureOpen, then the first fetchMany.
GenStart ==
  /\ gen.pc = "starting"
  /\ IF ~isOpen
       THEN GenFinish(Threw(NotOpenError), "threw")
       ELSE /\ gen' = [gen EXCEPT !.pc = "fetching"]
            /\ meth' = Call("fetchMany", gen.size)
            /\ mret' = NoRes
            /\ UNCHANGED <<top, stream>>
  /\ UNCHANGED <<libVars, baseHeaders, cfg, nRows, cursorVars, serverVars, req, settled,
                 sent, yielded,
                 lastResp, execErr, got, clean>>

\* fetchMany settled: end on an error or an empty batch, else yield the first row.
GenAfterFetch ==
  /\ gen.pc = "fetching"
  /\ meth = NoMeth
  /\ mret # NoRes
  /\ \/ /\ mret.state = "threw"
        /\ GenFinish(Threw(mret.error), "threw")
        /\ UNCHANGED yielded
     \/ /\ mret.state = "returned"
        /\ Len(mret.value.rows) = 0
        /\ GenFinish(Returned(Null), "exhausted")
        /\ UNCHANGED yielded
     \/ /\ mret.state = "returned"
        /\ Len(mret.value.rows) > 0
        /\ gen' = [gen EXCEPT !.pc = "yield", !.batch = mret.value.rows]
        /\ yielded' = Append(yielded, mret.value.rows[1])
        /\ mret' = NoRes
        /\ UNCHANGED <<top, stream, meth>>
  /\ UNCHANGED <<libVars, baseHeaders, cfg, nRows, cursorVars, serverVars, req, settled,
                 sent, lastResp,
                 execErr, got, clean>>

\* The consumer of a directly consumed iterate() asks for the first row.
IterateFirstNext ==
  /\ top.state = "running"
  /\ top.name = "iterate"
  /\ gen.pc = "created"
  /\ gen' = [gen EXCEPT !.pc = "starting"]
  /\ UNCHANGED <<libVars, baseHeaders, cfg, nRows, cursorVars, serverVars, top, meth,
                 stream, req, settled,
                 mret, sent, yielded, lastResp, execErr, got, clean>>

\* The consumer asks for the next row: the next row of the batch, or a new fetch.
ConsumerNext ==
  /\ top.state = "running"
  /\ gen.pc = "yield"
  /\ \/ /\ Len(gen.batch) > 1
        /\ gen' = [gen EXCEPT !.batch = Tail(gen.batch)]
        /\ yielded' = Append(yielded, gen.batch[2])
        /\ UNCHANGED meth
     \/ /\ Len(gen.batch) = 1
        /\ gen' = [gen EXCEPT !.pc = "fetching", !.batch = <<>>]
        /\ meth' = Call("fetchMany", gen.size)
        /\ UNCHANGED yielded
  /\ UNCHANGED <<libVars, baseHeaders, cfg, nRows, cursorVars, serverVars, top, stream,
                 req, settled, mret,
                 sent, lastResp, execErr, got, clean>>

\* The consumer leaves the loop early (break / return): the generator returns.
ConsumerReturn ==
  /\ top.state = "running"
  /\ gen.pc = "yield"
  /\ GenFinish(Returned(Null), "returned")
  /\ UNCHANGED <<libVars, baseHeaders, cfg, nRows, cursorVars, serverVars, req, settled,
                 sent, yielded,
                 lastResp, execErr, got, clean>>

----------------------------------------------------------------------------
(* CrateDBClient.streamQuery *)

\* for await (... of client.streamQuery(sql, batchSize))
CallStreamQuery(k) ==
  /\ StartCall("streamQuery", k)
  /\ stream' = [pc |-> "created", pending |-> NoRes]
  /\ UNCHANGED <<libVars, baseHeaders, cfg, nRows, cursorVars, serverVars, meth, gen,
                 req, settled, mret,
                 sent, yielded, lastResp, execErr, got, clean>>

\* The first next(): the generator body creates the cursor and awaits open().
StreamStart ==
  /\ top.state = "running"
  /\ top.name = "streamQuery"
  /\ stream.pc = "created"
  /\ NewCursor("streamQuery")
  /\ stream' = [stream EXCEPT !.pc = "opening"]
  /\ meth' = Call("open", 0)
  /\ UNCHANGED <<libVars, baseHeaders, cfg, nRows, top, gen, req, settled, mret, sent,
                 yielded, lastResp,
                 execErr>>

\* open() settled: yield* cursor.iterate(batchSize), or on an error the finally block.
StreamAfterOpen ==
  /\ stream.pc = "opening"
  /\ meth = NoMeth
  /\ mret # NoRes
  /\ mret' = NoRes
  /\ \/ /\ mret.state = "threw"
        /\ stream' = [pc |-> "closing", pending |-> Threw(mret.error)]
        /\ meth' = Call("close", 0)
        /\ UNCHANGED gen
     \/ /\ mret.state = "returned"
        /\ stream' = [stream EXCEPT !.pc = "iterating"]
        /\ gen' = [pc |-> "starting", size |-> top.arg, batch |-> <<>>]
        /\ UNCHANGED meth
  /\ UNCHANGED <<libVars, baseHeaders, cfg, nRows, cursorVars, serverVars, top, req,
                 settled, sent, yielded,
                 lastResp, execErr, got, clean>>

\* close() of the finally block settled: its error replaces what was pending.
StreamAfterClose ==
  /\ stream.pc = "closing"
  /\ meth = NoMeth
  /\ mret # NoRes
  /\ stream' = [stream EXCEPT !.pc = "done"]
  /\ top' = IF mret.state = "threw"
              THEN [top EXCEPT !.state = "threw", !.error = mret.error]
              ELSE [top EXCEPT !.state = stream.pending.state,
                               !.error = stream.pending.error]
  /\ UNCHANGED <<libVars, baseHeaders, cfg, nRows, cursorVars, serverVars, meth, gen,
                 req, settled, mret,
                 sent, yielded, lastResp, execErr, got, clean>>

----------------------------------------------------------------------------

\* The caller takes the result of its call (the await returns or throws, the
\* for-await loop ends) and is ready for its next call.
CallerResumes ==
  /\ top.state \in {"returned", "threw"}
  /\ top' = Idle
  /\ meth' = NoMeth /\ gen' = NoGen /\ stream' = NoStream
  /\ settled' = NoRes /\ mret' = NoRes
  /\ sent' = <<>> /\ yielded' = <<>> /\ lastResp' = NoResp /\ execErr' = NoErr
  /\ UNCHANGED <<libVars, baseHeaders, cfg, nRows, cursorVars, serverVars, req, got, clean>>

Next ==
  \/ CreateCursor
  \/ CallerResumes
  \/ \E name \in {"open", "fetchOne", "fetchAll", "close"} : CallMethod(name, 0)
  \/ \E n \in 0..MaxBatch : CallMethod("fetchMany", n)
  \/ \E gz \in BOOLEAN : MethodStep(gz)
  \/ \E o \in Outcomes(req) : Respond(o)
  \/ TopMethodDone
  \/ \E config \in QueryConfigs, size \in BodySizes, ok \in BOOLEAN, gz \in BOOLEAN :
       CallExecute(config, size, ok, gz)
  \/ \E n \in 1..MaxBulk, size \in BodySizes, ok \in BOOLEAN, gz \in BOOLEAN :
       CallExecuteMany(n, size, ok, gz)
  \/ \E c \in InsertCalls : CallInsert(c[1], c[2], c[3])
  \/ \E c \in InsertManyCalls : CallInsertMany(c[1], c[2], c[3])
  \/ \E tableName \in TableNames : CallGetPrimaryKeys(tableName)
  \/ \E k \in 0..MaxBatch : CallIterate(k)
  \/ IterateFirstNext
  \/ GenStart
  \/ GenAfterFetch
  \/ ConsumerNext
  \/ ConsumerReturn
  \/ \E k \in 0..MaxBatch : CallStreamQuery(k)
  \/ StreamStart
  \/ StreamAfterOpen
  \/ StreamAfterClose

Spec == Init /\ [][Next]_vars

----------------------------------------------------------------------------
(* Constructors and pure functions of the library (specification LibSpec) *)

\* `cursor_${Date.now()}`
CursorName(t) == [prefix |-> "cursor_", stamp |-> t]

\* A millisecond passes.
Tick ==
  /\ now < MaxClock
  /\ now' = now + 1
  /\ UNCHANGED <<cfg, nRows, cursorVars, serverVars, top, meth, gen, stream, req, settled,
                 mret, sent, yielded, lastResp, execErr, got, clean, baseHeaders,
                 cursorNames, input, output>>

\* new Cursor(client, sql), with the name it gives itself.  (Spec does not
\* record the name: its statements carry the verb only.)
ConstructCursor ==
  /\ Len(cursorNames) < MaxCursors
  /\ NewCursor("caller")
  /\ cursorNames' = Append(cursorNames, CursorName(now))
  /\ UNCHANGED <<cfg, nRows, top, meth, gen, stream, req, settled, mret, sent, yielded,
                 lastResp, execErr, baseHeaders, now, input, output>>

\* a || b
Or(a, b) == IF Truthy(a) THEN a ELSE b

\* A connection string, as the text of its parts.
ConnectionString(scheme, user, password, host, port) ==
  [json |-> "string", s |-> "url", scheme |-> scheme, user |-> user,
   password |-> password, host |-> host, port |-> port]

\* new URL(text): port is a string, protocol ends with a colon.
URL(text) ==
  [username |-> Str(text.user), password |-> Str(text.password),
   hostname |-> Str(text.host), port |-> Str(text.port),
   protocol |-> <<text.scheme, ":">>]

\* parseInt(str, 10) of the port texts of the model.
ParseInt(str) ==
  CASE str.s = "5000" -> Num(5000)
    [] str.s = "4201" -> Num(4201)
    [] OTHER -> [json |-> "number", n |-> 0, nan |-> TRUE]

\* The constructor up to this.cfg = cfg.
ResolveConfig(config) ==
  LET c == Spread(defaultConfig, config) IN
  IF ~Truthy(c.connectionString) THEN c
  ELSE LET parsed == URL(c.connectionString) IN
       [c EXCEPT !.user = Or(c.user, parsed.username),
                 !.password = Or(c.password, parsed.password),
                 !.host = parsed.hostname,
                 !.port = Or(c.port, ParseInt(parsed.port)),
                 !.ssl = Bool(Truthy(c.ssl) \/ parsed.protocol = <<"https", ":">>)]

\* The Authorization header of the constructor (no JWT configured).
AuthHeader(c) ==
  IF Truthy(c.user) /\ Truthy(c.password)
    THEN [Authorization |-> <<"Basic", c.user.s, c.password.s>>]
    ELSE <<>>

\* The connection strings passed to the constructor.
ConnectionStrings ==
  {ConnectionString("https", "u", "p", "urlhost", "5000"),
   ConnectionString("http", "", "", "urlhost", "")}

\* The configuration objects passed to the constructor: no explicit field,
\* one, or all of them, with or without a connection string.
ConstructorConfigs ==
  LET full == [user : {Str("admin")}, password : {Str("secret")},
               host : {Str("db.internal")}, port : {Num(4201)},
               ssl : {Bool(TRUE), Bool(FALSE)},
               connectionString : ConnectionStrings \cup {Null}]
      all == {"user", "password", "host", "port", "ssl"}
  IN {[f \in S \cup {"connectionString"} |-> c[f]] :
        c \in full, S \in {{}, all} \cup {{f} : f \in all}}

\* new CrateDBClient(config)
Construct(config) ==
  /\ input' = [fn |-> "CrateDBClient", config |-> config]
  /\ output' = [state |-> "returned"]
  /\ cfg' = ResolveConfig(config)
  /\ baseHeaders' = Spread(ConstructedHeaders, AuthHeader(cfg'))
  /\ UNCHANGED <<nRows, cursorVars, serverVars, top, meth, gen, stream, req, settled,
                 mret, sent, yielded, lastResp, execErr, got, clean, now, cursorNames>>

\* The responses handed to _transformResponse: one row under one or two
\* columns, the two columns with different names or with the same name.
TransformResponses ==
  {[cols |-> cols, rows |-> <<ArrayRow(cells)>>, rowcount |-> 1] :
     cols \in {<<"a">>, <<"a", "b">>, <<"a", "a">>},
     cells \in {<<Num(1)>>, <<Null>>, <<Num(1), Null>>, <<Null, Num(1)>>, <<Num(1), Num(1)>>}}

\* this._transformResponse(response, rowMode)
Transform(response, rowMode) ==
  /\ Len(response.cols) = Len(response.rows[1].cells)
  /\ input' = [fn |-> "_transformResponse", response |-> response, rowMode |-> rowMode]
  /\ output' = [state |-> "returned", value |-> _transformResponse(response, rowMode)]
  /\ UNCHANGED <<cfg, nRows, cursorVars, serverVars, top, meth, gen, stream, req, settled,
                 mret, sent, yielded, lastResp, execErr, got, clean, baseHeaders, now,
                 cursorNames>>

\* Serializer.serialize(obj)
Serialize(obj) ==
  /\ input' = [fn |-> "serialize", obj |-> obj]
  /\ output' = [state |-> "returned", value |-> serialize(obj)]
  /\ UNCHANGED <<cfg, nRows, cursorVars, serverVars, top, meth, gen, stream, req, settled,
                 mret, sent, yielded, lastResp, execErr, got, clean, baseHeaders, now,
                 cursorNames>>

\* Serializer.deserialize(str, config) of well-formed JSON text.
Deserialize(str, config) ==
  /\ input' = [fn |-> "deserialize", str |-> str, config |-> config]
  /\ output' = [state |-> "returned", value |-> _deserialize(str, config)]
  /\ UNCHANGED <<cfg, nRows, cursorVars, serverVars, top, meth, gen, stream, req, settled,
                 mret, sent, yielded, lastResp, execErr, got, clean, baseHeaders, now,
                 cursorNames>>

LibInit == Init /\ cfg = defaultConfig /\ nRows = 0

\* The row modes a caller passes to _transformResponse.
RowModes == {Str("array"), Str("object"), Undefined}

\* The argument lists of one value given to serialize: a bigint, a number
\* that a double holds, a string.
SerializedArguments ==
  {<<value>> : value \in {BigInt(k) : k \in Offsets}
                         \cup {Number(k) : k \in {o \in Offsets : ToDouble(o) = o}}
                         \cup {[json |-> "string", k |-> 1]}}

\* Response bodies of one row of one cell, without col_types or with the
\* column type BIGINT or TEXT.
SingleCellBodies ==
  {IF types = <<>> THEN [rows |-> <<<<token>>>>]
   ELSE [col_types |-> types, rows |-> <<<<token>>>>] :
     token \in {Literal("int", k) : k \in Offsets}
               \cup {Literal("float", 1), Literal("string", 1)},
     types \in {<<>>, <<[json |-> "number", type |-> "BIGINT"]>>,
                <<[json |-> "number", type |-> "TEXT"]>>}}

\* The default deserialization with long 'number' or 'bigint'.
LongConfigs ==
  {[defaultConfig.deserialization EXCEPT !.long = long] : long \in {"number", "bigint"}}

LibNext ==
  \/ Tick
  \/ ConstructCursor
  \/ \E config \in ConstructorConfigs : Construct(config)
  \/ \E response \in TransformResponses, rowMode \in RowModes : Transform(response, rowMode)
  \/ \E obj \in SerializedArguments : Serialize(obj)
  \/ \E str \in SingleCellBodies, config \in LongConfigs : Deserialize(str, config)

LibSpec == LibInit /\ [][LibNext]_vars

----------------------------------------------------------------------------
(* Statement generation and decoding by column type (specification PureSpec) *)

\* StatementGenerator.dropTable, insert or createTable called with args.
Generate(fn, args) ==
  /\ input' = [fn |-> fn, args |-> args]
  /\ output' = CASE fn = "dropTable" ->
                      [state |-> "returned", value |-> dropTable(args[1])]
                 [] fn = "insert" ->
                      [state |-> "returned", value |-> insert(args[1], args[2], args[3])]
                 [] fn = "createTable" ->
                      LET r == createTable(args[1], args[2], args[3]) IN
                      IF r.threw THEN [state |-> "threw", error |-> r.error]
                      ELSE [state |-> "returned", value |-> r.value]
  /\ UNCHANGED <<cfg, nRows, cursorVars, serverVars, top, meth, gen, stream, req, settled,
                 mret, sent, yielded, lastResp, execErr, got, clean, baseHeaders, now,
                 cursorNames>>

\* insertMany from its validation to the call of executeMany: the column
\* list, the bulk arguments and the statement.
InsertManyArguments(tableName, objectArray, primaryKeys) ==
  /\ Len(objectArray) > 0
  /\ input' = [fn |-> "insertMany", objectArray |-> objectArray]
  /\ output' = [state |-> "returned",
                uniqueKeys |-> uniqueKeys(objectArray),
                bulkArgs |-> bulkArgs(objectArray, uniqueKeys(objectArray)),
                query |-> insert(tableName, uniqueKeys(objectArray), primaryKeys)]
  /\ UNCHANGED <<cfg, nRows, cursorVars, serverVars, top, meth, gen, stream, req, settled,
                 mret, sent, yielded, lastResp, execErr, got, clean, baseHeaders, now,
                 cursorNames>>

\* The table names, key lists and primary keys the generator is called with.
QuotedTableNames == {<<"t">>, <<"s", ".", "t">>}

KeyLists == {<<"id">>, <<"id", "name">>, <<"id", "name", "value">>}

PrimaryKeyLists == {Null, Arr(<<>>), Arr(<<"id">>), Arr(<<"name">>), Arr(<<"id", "name">>)}

\* Column definitions: scalar columns with a default, a generated value or
\* both, and object columns that hold such a column one or two levels down.
ColumnDefinitions ==
  LET both == [type |-> "double", defaultValue |-> "0", generatedAlways |-> "value * 2"]
      generated == [type |-> "double", generatedAlways |-> "value * value"]
      Object(definition) == [type |-> "object",
                             properties |-> <<[key |-> "inner", value |-> definition]>>]
  IN {both, generated, [type |-> "integer", notNull |-> TRUE, defaultValue |-> "1"],
      Object(both), Object(Object(both)),
      [type |-> "object", mode |-> "strict",
       properties |-> <<[key |-> "inner", value |-> generated]>>]}

\* Schemas of one such column, alone or after a primary key column.
Schemas ==
  LET id == [key |-> "id", value |-> [type |-> "integer", primaryKey |-> TRUE]]
  IN UNION {{<<[key |-> "c", value |-> d]>>, <<id, [key |-> "c", value |-> d]>>} :
              d \in ColumnDefinitions}

TableOptions ==
  {Undefined, [numberOfShards |-> "1"], [clusteredBy |-> "id"],
   [partitionedBy |-> <<"id">>, clusteredBy |-> "id",
    numberOfShards |-> "1", numberOfReplicas |-> "1-all"]}

\* Arrays of one to three objects with equal, overlapping and disjoint keys.
KeyedObjectArrays ==
  LET Entry(key, value) == [key |-> key, value |-> value]
      objects == {<<>>, <<Entry("a", Num(1))>>, <<Entry("b", Null)>>,
                  <<Entry("a", Num(1)), Entry("b", Num(2))>>,
                  <<Entry("b", Num(2)), Entry("a", Undefined)>>,
                  <<Entry("c", Num(3)), Entry("a", Num(1))>>}
  IN {<<o>> : o \in objects}
     \cup {<<o, q>> : o \in objects, q \in objects}
     \cup {<<o, o, q>> : o \in objects, q \in objects}

\* Response bodies of one row of two cells: a TEXT column and a column of a
\* scalar or (nested) array type whose cell is a number, a string or an array.
TypedBodies ==
  LET Type(name) == [json |-> "number", type |-> name]
      Array(element) == Arr(<<Type("ARRAY"), element>>)
      Tokens(items) == [lit |-> "array", items |-> items]
      int == Literal("int", 1)
      tokens == {Literal("int", k) : k \in Offsets}
                \cup {Literal("float", 1), Literal("string", 1),
                      Tokens(<<int, Literal("string", 1)>>),
                      Tokens(<<Tokens(<<int>>), Literal("int", -2)>>)}
      colTypes == {Type(name) : name \in {"BIGINT", "TEXT", "DATE",
                                          "TIMESTAMP_WITH_TIME_ZONE",
                                          "TIMESTAMP_WITHOUT_TIME_ZONE"}}
                  \cup {Array(Type("BIGINT")), Array(Array(Type("DATE")))}
  IN {[col_types |-> <<Type("TEXT"), colType>>, rows |-> <<<<int, token>>>>] :
        token \in tokens, colType \in colTypes}

DeserializationConfigs ==
  [long : {"number", "bigint"}, timestamp : {"number", "date"}, date : {"number", "date"}]

PureNext ==
  \/ \E tableName \in QuotedTableNames : Generate("dropTable", <<tableName>>)
  \/ \E tableName \in QuotedTableNames, keys \in KeyLists, primaryKeys \in PrimaryKeyLists :
       Generate("insert", <<tableName, keys, primaryKeys>>)
  \/ \E schema \in Schemas, options \in TableOptions :
       Generate("createTable", <<<<"s", ".", "t">>, schema, options>>)
  \/ \E objectArray \in KeyedObjectArrays : InsertManyArguments(<<"t">>, objectArray, Null)
  \/ \E str \in TypedBodies, config \in DeserializationConfigs : Deserialize(str, config)

PureSpec == LibInit /\ [][PureNext]_vars

----------------------------------------------------------------------------
(* Properties *)

Done == top.state \in {"returned", "threw"}

\* The statements of a record of requests, in the order sent.
Verbs(reqs) == [i \in DOMAIN reqs |-> reqs[i].verb]

\* The statement of a request was carried out and client.execute resolved.
Succeeded(o) == o.t = "response" /\ o.status = 200 /\ o.body.text = "json"

\* Rows a+1 .. b of the result as keyed objects.
ObjectSegment(a, b) ==
  [j \in 1..(b - a) |-> ObjectRow([id |-> a + j, name |-> Names[a + j]])]

\* The requests of the record that are FETCH statements.
Fetches(reqs) == {i \in DOMAIN reqs : reqs[i].verb \in {"FETCH NEXT", "FETCH", "FETCH ALL"}}

\* ceil(n / k) for k >= 1
CeilDiv(n, k) == (n + k - 1) \div k

\* C1: when an iteration of streamQuery has ended, however it ended, CLOSE and
\* then COMMIT were sent and the cursor's agent was destroyed.
C1_StreamAlwaysCloses ==
  (top.name = "streamQuery" /\ Done /\ stream.pc = "done") =>
    /\ \E i, j \in DOMAIN sent : i < j /\ sent[i].verb = "CLOSE" /\ sent[j].verb = "COMMIT"
    /\ agentDestroyed

\* C2 as stated: every fetch on a cursor that is not open, fetchMany(n) for every
\* n included, fails with the not-open error and sends nothing.
C2_EveryFetchFailsWhenNotOpen ==
  (top.name \in FetchNames \cup {"iterate"} /\ Done /\ ~isOpen) =>
    top.state = "threw" /\ top.error = NotOpenError /\ sent = <<>>

\* C2 amended: on a cursor that is not open fetchOne(), fetchMany(n) for n >= 1,
\* fetchAll() and the first step of iterate(k) fail with the not-open error, and
\* fetchMany(n) for n < 1 returns an empty list; none of them sends a request.
C2_FetchWhenNotOpen ==
  (top.name \in FetchNames \cup {"iterate"} /\ Done /\ ~isOpen) =>
    /\ sent = <<>>
    /\ IF top.name = "fetchMany" /\ top.arg < 1
         THEN top.state = "returned" /\ top.value = RowsValue(<<>>)
         ELSE top.state = "threw" /\ top.error = NotOpenError

C2_Witness ==
  top.name = "fetchAll" /\ top.state = "threw" /\ ~isOpen /\ agentDestroyed

\* C3: open() sends BEGIN and then, only once BEGIN succeeded, DECLARE, both
\* through the cursor's agent; the cursor is open only once DECLARE succeeded;
\* open() on an open cursor throws the already-open error and sends nothing.
C3_OpenProtocol ==
  top.name = "open" =>
    /\ Verbs(sent) \in {<<>>, <<"BEGIN">>, <<"BEGIN", "DECLARE">>}
    /\ \A i \in DOMAIN sent : sent[i].agent = cursorAgent
    /\ Len(sent) = 2 => Succeeded(sent[1].resp)
    /\ (isOpen /\ sent # <<>>) => (Len(sent) = 2 /\ Succeeded(sent[2].resp))
    /\ top.state = "returned" => (isOpen /\ Len(sent) = 2)
    /\ (Done /\ isOpen /\ sent = <<>>) =>
         (top.state = "threw" /\ top.error = AlreadyOpenError)
    /\ (top.state = "threw" /\ top.error = AlreadyOpenError) => sent = <<>>

C3_Witness ==
  top.name = "open" /\ top.state = "returned" /\ isOpen /\ Len(sent) = 2

\* A call of close() has returned (to the caller, or to streamQuery's finally).
CloseReturned ==
  \/ top.name = "close" /\ top.state = "returned"
  \/ stream.pc = "closing" /\ meth = NoMeth /\ mret.state = "returned"

\* C4: when close() returns, the last two requests are CLOSE and COMMIT, COMMIT
\* sent after CLOSE succeeded, the cursor is not open, and its agent is destroyed
\* and holds no socket.
C4_CloseProtocol ==
  CloseReturned =>
    /\ Len(sent) >= 2
    /\ sent[Len(sent) - 1].verb = "CLOSE" /\ sent[Len(sent)].verb = "COMMIT"
    /\ Succeeded(sent[Len(sent) - 1].resp) /\ Succeeded(sent[Len(sent)].resp)
    /\ top.name = "close" => Len(sent) = 2
    /\ ~isOpen
    /\ agentDestroyed
    /\ agentSockets = 0

C4_Witness ==
  top.name = "close" /\ top.state = "returned" /\ Len(sent) = 2 /\ Len(got) > 0

\* C5: every request of a cursor goes through the cursor's agent, whose
\* maxSockets is 1, and not through the client's shared agent; every request of
\* execute or executeMany without httpOptions goes through the shared agent.
C5_AgentAffinity ==
  /\ agentSockets <= cursorAgent.maxSockets
  /\ \A i \in DOMAIN sent :
       IF sent[i].via = "cursor"
         THEN /\ sent[i].agent = cursorAgent
              /\ sent[i].agent # httpAgent
              /\ sent[i].agent.maxSockets = 1
         ELSE sent[i].config.httpOptions = Undefined =>
                (sent[i].agent = httpAgent /\ sent[i].agent # cursorAgent)

C5_Witness ==
  top.name = "streamQuery" /\ Len(sent) >= 5 /\ sent[5].verb = "CLOSE"
    /\ sent[5].agent.id = "cursor"

\* The last exchange of the call ended with a response whose status is not 200.
Non200 ==
  top.name \in {"execute", "executeMany"} /\ Done
    /\ lastResp.t = "response" /\ lastResp.status # 200

\* C6 as stated: for every response whose status is not 200 the call rejects
\* with a CrateDBError that carries the body's error and the status code.
C6_EveryNon200IsCrateDBError ==
  Non200 =>
    /\ top.state = "threw"
    /\ top.error.kind = "CrateDBError"
    /\ top.error.statusCode = lastResp.status

\* The body decodes to JSON that holds an error object.
HasErrorEnvelope(resp) ==
  resp.body.text = "json" /\ "error" \in DOMAIN resp.body.value

\* C6 amended: for every response whose status is not 200 and whose body decodes
\* to JSON with an error object, the call rejects with a CrateDBError that carries
\* error.message, error.code, the optional error_trace and the status code; for
\* every other body of such a response it rejects with a RequestError.
C6_Non200Rejection ==
  Non200 =>
    /\ top.state = "threw"
    /\ IF HasErrorEnvelope(lastResp)
         THEN top.error = CrateDBError(lastResp.body.value.error.message,
                                       lastResp.body.value.error.code,
                                       Prop(lastResp.body.value, "error_trace"),
                                       lastResp.status)
         ELSE top.error.kind = "RequestError"

C6_Witness ==
  Non200 /\ top.name = "executeMany" /\ top.error.kind = "CrateDBError"
    /\ top.error.error_trace = Str("trace") /\ top.error.statusCode = 400

\* The last exchange of the call failed at the transport layer.
TransportFailure ==
  top.name \in {"execute", "executeMany"} /\ Done
    /\ \/ lastResp.t \in {"socketError", "gzipError"}
       \/ lastResp.t = "response" /\ lastResp.body.text # "json"

\* The error the transport layer raised.
UnderlyingError(resp) ==
  IF resp.t \in {"socketError", "gzipError"} THEN resp.err
  ELSE deserialize(resp.body).error

\* C7: every transport failure reaches the caller as a RequestError whose cause
\* is the underlying error.
C7_TransportFailureKeepsCause ==
  TransportFailure =>
    /\ top.state = "threw"
    /\ top.error.kind = "RequestError"
    /\ top.error.cause = UnderlyingError(lastResp)

\* A cursor operation called by the caller threw what client.execute raised.
CursorOpFailedInExecute ==
  top.name \in MethodNames \cup {"iterate"} /\ top.state = "threw" /\ execErr # NoErr

\* C8 as stated: the error client.execute raised reaches the caller of the cursor
\* operation with the same kind and the same message.
C8_ErrorsUnchanged ==
  CursorOpFailedInExecute =>
    top.error.kind = execErr.kind /\ top.error.message = execErr.message

\* C8 amended: a CrateDBError that client.execute raised reaches the caller of
\* the cursor operation unchanged; any other error reaches it as a RequestError
\* whose message is "Error executing SQL: <sql>. Details: <message>" and whose
\* cause is the error client.execute raised.
C8_ErrorPropagation ==
  CursorOpFailedInExecute =>
    IF execErr.kind = "CrateDBError" THEN top.error = execErr
    ELSE /\ top.error.kind = "RequestError"
         /\ top.error.cause = execErr
         /\ Len(top.error.message) = 3 + Len(execErr.message)
         /\ top.error.message[1] = "Error executing SQL: "
         /\ top.error.message[3] = ". Details: "
         /\ SubSeq(top.error.message, 4, Len(top.error.message)) = execErr.message

C8_Witness ==
  CursorOpFailedInExecute /\ top.name = "fetchMany" /\ execErr.kind = "RequestError"
    /\ lastResp.t = "socketError"

\* An iteration ran to the end of the result: iterate(k) consumed by the caller,
\* or the one inside streamQuery(sql, k), for k >= 1.
Exhausted ==
  top.name \in {"iterate", "streamQuery"} /\ gen.pc = "exhausted" /\ top.arg >= 1

\* C9: an iteration with batch size k >= 1 that runs to the end yields the rows
\* from the cursor's position to the last, in order and each once (all N rows for
\* a cursor nothing was fetched from), and sends ceil(rows / k) + 1 FETCH
\* requests, the last of which returns no rows.
C9_IterateYieldsAll ==
  Exhausted =>
    LET f == Fetches(sent)
        last == CHOOSE i \in f : \A j \in f : j <= i
    IN /\ Len(yielded) <= nRows
       /\ yielded = ObjectSegment(nRows - Len(yielded), nRows)
       /\ (clean /\ got = yielded) => Len(yielded) = nRows
       /\ top.name = "streamQuery" => Len(yielded) = nRows
       /\ Cardinality(f) = CeilDiv(Len(yielded), top.arg) + 1
       /\ \A i \in f : sent[i].verb = "FETCH" /\ sent[i].n = top.arg
       /\ Succeeded(sent[last].resp) /\ sent[last].resp.body.value.rowcount = 0

C9_Witness ==
  Exhausted /\ top.name = "iterate" /\ top.arg = 2 /\ Len(yielded) = 3
    /\ Cardinality(Fetches(sent)) = 3

\* The rows a fetch could still hand out before it ran.
Remaining == nRows - (srvPos - Len(ValueRows(top.value)))

SentCompressed(r) ==
  /\ "ContentEncoding" \in DOMAIN r.headers
  /\ r.headers.ContentEncoding = "gzip"
  /\ r.request = GzipLength(r.requestUncompressed)

\* The request was sent raw.
SentRaw(r) ==
  /\ "ContentEncoding" \notin DOMAIN r.headers
  /\ r.request = r.requestUncompressed

BadTableName(v) == ~(v.json = "string" /\ v.s # "")

\* primaryKeys was given (neither omitted nor null) and is not an array.
BadPrimaryKeys(v) == v # Undefined /\ v # Null /\ v.json # "array"

\* The arguments of the caller's call are invalid.
InvalidArguments ==
  CASE top.name = "insert" ->
         \/ BadTableName(top.arg.tableName)
         \/ top.arg.obj.json # "object"
         \/ BadPrimaryKeys(top.arg.primaryKeys)
    [] top.name = "insertMany" ->
         \/ BadTableName(top.arg.tableName)
         \/ top.arg.objectArray.json # "array"
         \/ Len(top.arg.objectArray.items) = 0
         \/ BadPrimaryKeys(top.arg.primaryKeys)
    [] top.name = "getPrimaryKeys" -> BadTableName(top.arg.tableName)
    [] OTHER -> FALSE

\* C13: insert, insertMany and getPrimaryKeys called with invalid arguments fail
\* with an error and send no request.
C13_InvalidArgumentsFail ==
  InvalidArguments => (top.state = "threw" /\ sent = <<>> /\ req = NoReq)

\* The caller's bulk call was answered with status 200 and a JSON body.
BulkAnswered ==
  top.name \in {"executeMany", "insertMany"} /\ Done
    /\ lastResp.t = "response" /\ lastResp.status = 200 /\ lastResp.body.text = "json"

\* C14: a bulk call that was answered with a 200 response returns, whatever the
\* rowcounts of its results, and bulk_errors lists in ascending order exactly the
\* indices (from 0) of the results whose rowcount is -2: the empty list when
\* there is none or when the body has no results.
C14_BulkErrors ==
  BulkAnswered =>
    /\ top.state = "returned"
    /\ LET res == top.value.response
           results == IF "results" \in DOMAIN lastResp.body.value
                        THEN lastResp.body.value.results ELSE <<>>
           be == res.bulk_errors
       IN /\ \A j \in 1..(Len(be) - 1) : be[j] < be[j + 1]
          /\ {be[j] : j \in DOMAIN be} =
               {i - 1 : i \in {k \in DOMAIN results : results[k].rowcount = -2}}

C14_Witness ==
  BulkAnswered /\ top.name = "executeMany" /\ top.state = "returned"
    /\ top.value.response.bulk_errors = <<0, 2>>

\* The effective rowMode of a call of execute as the documentation has it: the
\* per-call rowMode, otherwise the client's configured rowMode, otherwise 'array'.
DocumentedRowMode(config) ==
  IF config.rowMode # Undefined THEN config.rowMode.s
  ELSE IF cfg.rowMode # Undefined THEN cfg.rowMode.s
  ELSE "array"

\* C15: execute returns its rows as keyed objects exactly when the effective
\* rowMode is 'object', and as arrays in every other case.
C15_RowModeSelectsShape ==
  (top.name = "execute" /\ top.state = "returned") =>
    \A i \in DOMAIN top.value.response.rows :
      top.value.response.rows[i].shape =
        (IF DocumentedRowMode(sent[1].config) = "object" THEN "object" ELSE "array")

\* C18: a request is sent gzip-compressed with Content-Encoding: gzip exactly
\* when enableCompression is true and its uncompressed byte length is strictly
\* greater than compressionThreshold; every other request is sent raw without
\* that header, and the response to it reports sizes.request =
\* sizes.requestUncompressed.
C18_CompressionThreshold ==
  /\ \A i \in DOMAIN sent :
       IF cfg.enableCompression /\ sent[i].requestUncompressed > cfg.compressionThreshold
         THEN SentCompressed(sent[i])
         ELSE SentRaw(sent[i])
  /\ (top.name \in {"execute", "executeMany"} /\ top.state = "returned") =>
       LET sizes == top.value.response.sizes IN
       /\ sizes.requestUncompressed = sent[1].requestUncompressed
       /\ sizes.request = sent[1].request
       /\ SentRaw(sent[1]) => sizes.request = sizes.requestUncompressed

C18_Witness ==
  /\ top.name = "execute" /\ top.state = "returned"
  /\ cfg.enableCompression
  /\ sent[1].requestUncompressed = cfg.compressionThreshold
  /\ SentRaw(sent[1])
  /\ top.value.response.sizes.request = 100

\* C11: any two Cursor instances have distinct cursor names.
C11_CursorNamesDistinct ==
  \A i, j \in DOMAIN cursorNames : i # j => cursorNames[i] # cursorNames[j]

\* The value a connection string carries for a field of the configuration.
UrlField(text, f) ==
  CASE f = "user" -> Str(text.user)
    [] f = "password" -> Str(text.password)
    [] f = "host" -> Str(text.host)
    [] f = "port" -> ParseInt(Str(text.port))
    [] f = "ssl" -> Bool(text.scheme = "https")

\* Whether the connection string carries a value for the field (the host and
\* the scheme are always there).
UrlCarries(text, f) ==
  CASE f = "user" -> text.user # ""
    [] f = "password" -> text.password # ""
    [] f = "port" -> text.port # ""
    [] OTHER -> TRUE

\* C17: with a connection string, each of the resolved user, password, host,
\* port and ssl is the explicitly passed field if one was passed, and otherwise
\* the value the URL carries for it.
C17_ConnectionStringFillsBlanks ==
  (input.fn = "CrateDBClient" /\ input.config.connectionString # Null) =>
    \A f \in {"user", "password", "host", "port", "ssl"} :
      IF f \in DOMAIN input.config THEN cfg[f] = input.config[f]
      ELSE UrlCarries(input.config.connectionString, f) =>
             cfg[f] = UrlField(input.config.connectionString, f)

\* A call of _transformResponse in object mode has returned.
Reshaped ==
  /\ input.fn = "_transformResponse"
  /\ input.rowMode # Str("array")
  /\ output.state = "returned"

\* C16 as stated: in object mode every row r becomes an object o with
\* o[C[i]] = r[i] for every index i of the column list C.
C16_ObjectReshaping ==
  Reshaped =>
    \A k \in DOMAIN input.response.rows :
      /\ output.value.rows[k].shape = "object"
      /\ \A i \in DOMAIN input.response.cols :
           output.value.rows[k].obj[input.response.cols[i]] = input.response.rows[k].cells[i]

\* C16, amended: in object mode every row r becomes an object o whose keys are
\* the column names and o[C[i]] = r[j] for the last index j with C[j] = C[i]
\* (so o[C[i]] = r[i] when the names are distinct); null cells stay null.
C16_ObjectReshapingLastWins ==
  Reshaped =>
    \A k \in DOMAIN input.response.rows :
      LET C == input.response.cols
          r == input.response.rows[k].cells
          o == output.value.rows[k]
      IN /\ o.shape = "object"
         /\ DOMAIN o.obj = {C[i] : i \in DOMAIN C}
         /\ \A i \in DOMAIN C :
              \E j \in DOMAIN C :
                /\ C[j] = C[i]
                /\ \A l \in DOMAIN C : l > j => C[l] # C[i]
                /\ o.obj[C[i]] = r[j]

\* A row with a null cell under two columns of the same name was reshaped.
C16_Witness ==
  /\ Reshaped
  /\ input.response.cols = <<"a", "a">>
  /\ input.response.rows[1].cells = <<Num(1), Null>>
  /\ output.value.rows[1].obj["a"] = Null

\* Serializer.deserialize has returned the body whose one cell is an integer
\* literal above Number.MAX_SAFE_INTEGER.
DecodedLargeInteger ==
  /\ input.fn = "deserialize"
  /\ input.str.rows[1][1].lit = "int"
  /\ input.str.rows[1][1].k > MAX_SAFE_INTEGER
  /\ output.state = "returned"

\* C19: an integer literal of a response body that exceeds
\* Number.MAX_SAFE_INTEGER is decoded to the BigInt of its digits, with or
\* without column types, under every deserialization configuration.
C19_LargeIntegersBecomeBigInt ==
  DecodedLargeInteger => output.value.rows[1][1] = BigInt(input.str.rows[1][1].k)

\* C20: a bigint n > 2^53 is serialized to the unquoted literal of its digits,
\* and that literal is deserialized with long = 'bigint' to the bigint n.
C20_BigIntRoundTrip ==
  /\ (input.fn = "serialize" /\ input.obj[1].json = "bigint" /\ input.obj[1].k > 0) =>
       output.value = <<Literal("int", input.obj[1].k)>>
  /\ (input.fn = "deserialize" /\ input.config.long = "bigint") =>
       \A k \in Offsets :
         (k > 0 /\ input.str.rows[1] = serialize(<<BigInt(k)>>)) =>
           output.value.rows[1] = <<BigInt(k)>>

\* The literal that serialize writes for the bigint 2^53 + 1, which no double
\* holds, was deserialized with long = 'bigint' and without column types.
C20_Witness ==
  /\ input.fn = "deserialize"
  /\ input.config.long = "bigint"
  /\ "col_types" \notin DOMAIN input.str
  /\ input.str.rows[1] = serialize(<<BigInt(1)>>)
  /\ ToDouble(1) # 1
  /\ output.value.rows[1] = <<BigInt(1)>>

\* C26: when a streamQuery iteration ends because open() or a fetch failed, the
\* consumer gets that failure, not an error of the close() of the cleanup.
C26_StreamKeepsOriginalError ==
  (top.name = "streamQuery" /\ top.state = "threw" /\ stream.pending.state = "threw") =>
    top.error = stream.pending.error

\* C27: for a cursor whose agent holds a socket, a call to close() that has
\* settled, by returning or by throwing, has destroyed the agent.
C27_CloseReleasesAgent ==
  (top.name = "close" /\ top.state \in {"returned", "threw"} /\ agentSockets > 0) =>
    agentDestroyed

\* C28: once close() has completed and destroyed the agent, the cursor is never
\* open again and no request is in flight through its agent.
C28_ClosedIsFinal ==
  agentDestroyed => (~isOpen /\ (req # NoReq => req.agent.id # "cursor"))

\* C29: a call to execute or executeMany whose HTTP exchange has ended has
\* settled: it is not left running.
C29_ExecuteSettles ==
  (top.name \in {"execute", "executeMany"} /\ top.state = "running") => lastResp = NoResp

\* Serializer.deserialize has returned a body that has column types.
DecodedWithTypes ==
  /\ input.fn = "deserialize"
  /\ "col_types" \in DOMAIN input.str
  /\ output.state = "returned"

RECURSIVE InnermostType(_)
\* The innermost tag of a column type.
InnermostType(type) ==
  IF type.json = "array" THEN InnermostType(type.items[Len(type.items)]) ELSE type.type

RECURSIVE NumbersReplaced(_, _)
\* The cell with every number in it, at any depth of arrays, replaced by the
\* big integer or the date of the same value.
NumbersReplaced(cell, by) ==
  CASE cell.json = "array" ->
         [cell EXCEPT !.items = [i \in DOMAIN cell.items |-> NumbersReplaced(cell.items[i], by)]]
    [] cell.json = "number" -> [json |-> by, k |-> cell.k]
    [] OTHER -> cell

\* C21: the cell row[i] is converted by the base type of col_types[i],
\* recursively into arrays: numbers of BIGINT columns to big integers when
\* long = 'bigint', numbers of DATE columns to dates when date = 'date',
\* numbers of TIMESTAMP columns to dates when timestamp = 'date'; every other
\* cell is the parsed cell unchanged.
C21_ConversionByColumnType ==
  DecodedWithTypes =>
    \A r \in DOMAIN input.str.rows :
      \A i \in DOMAIN input.str.rows[r] :
        LET parsed == JSONParse(input.str.rows[r][i], input.config.long = "bigint")
            base == IF i \in DOMAIN input.str.col_types
                      THEN InnermostType(input.str.col_types[i]) ELSE "none"
            cell == output.value.rows[r][i]
        IN CASE base = "BIGINT" /\ input.config.long = "bigint" ->
                  cell = NumbersReplaced(parsed, "bigint")
             [] base = "DATE" /\ input.config.date = "date" ->
                  cell = NumbersReplaced(parsed, "date")
             [] base \in {"TIMESTAMP_WITH_TIME_ZONE", "TIMESTAMP_WITHOUT_TIME_ZONE"}
                  /\ input.config.timestamp = "date" ->
                  cell = NumbersReplaced(parsed, "date")
             [] OTHER -> cell = parsed

\* A nested array cell of a column of type array of array of DATE was decoded
\* with date = 'date': the numbers at both depths are dates.
C21_Witness ==
  /\ DecodedWithTypes
  /\ Len(input.str.col_types) = 2
  /\ input.str.col_types[2].json = "array"
  /\ InnermostType(input.str.col_types[2]) = "DATE"
  /\ input.config.date = "date"
  /\ input.str.rows[1][2].lit = "array"
  /\ output.value.rows[1][2].json = "array"
  /\ output.value.rows[1][2].items[1].json = "array"
  /\ output.value.rows[1][2].items[1].items[1].json = "date"
  /\ output.value.rows[1][2].items[2].json = "date"
  /\ output.value.rows[1][1].json # "date"

\* The position at which the key is first seen in the array of objects.
FirstSeen(objectArray, key) ==
  LET r == CHOOSE r \in DOMAIN objectArray :
             /\ \E e \in DOMAIN objectArray[r] : objectArray[r][e].key = key
             /\ \A q \in 1..(r - 1) : \A e \in DOMAIN objectArray[q] : objectArray[q][e].key # key
      e == CHOOSE e \in DOMAIN objectArray[r] : objectArray[r][e].key = key
  IN <<r, e>>

\* C22: the column list of insertMany is the union of the keys of all objects
\* in first-seen order, and every object gives one argument row of that length
\* with its value for the j-th column, or null where it lacks the key.
C22_InsertManyUnionOfKeys ==
  (input.fn = "insertMany" /\ output.state = "returned") =>
    LET objs == input.objectArray
        keys == output.uniqueKeys
        args == output.bulkArgs
    IN /\ {keys[j] : j \in DOMAIN keys}
            = UNION {{objs[r][e].key : e \in DOMAIN objs[r]} : r \in DOMAIN objs}
       /\ \A i, j \in DOMAIN keys :
            i < j => LET a == FirstSeen(objs, keys[i])
                         b == FirstSeen(objs, keys[j])
                     IN a[1] < b[1] \/ (a[1] = b[1] /\ a[2] < b[2])
       /\ DOMAIN args = DOMAIN objs
       /\ \A r \in DOMAIN objs :
            /\ DOMAIN args[r] = DOMAIN keys
            /\ \A j \in DOMAIN keys :
                 IF \E e \in DOMAIN objs[r] : objs[r][e].key = keys[j]
                   THEN \E e \in DOMAIN objs[r] :
                          objs[r][e].key = keys[j] /\ args[r][j] = objs[r][e].value
                   ELSE args[r][j] = Null

\* Two objects with different keys were given: the second one brings a new
\* column after those of the first and lacks one of them.
C22_Witness ==
  /\ input.fn = "insertMany"
  /\ Len(input.objectArray) = 2
  /\ output.uniqueKeys = <<"a", "b", "c">>
  /\ output.bulkArgs[2] = <<Num(1), Null, Num(3)>>

\* C23: dropTable returns DROP TABLE IF EXISTS and the table name with each
\* of its parts in double quotes.
C23_DropTableIfExists ==
  (input.fn = "dropTable" /\ output.state = "returned") =>
    output.value = <<"DROP TABLE IF EXISTS ">> \o quoteIdentifier(input.args[1]) \o <<";">>

RECURSIVE BothDefaultAndGenerated(_)
\* Some scalar column of the entries, at any depth of object columns, has both
\* defaultValue and generatedAlways.
BothDefaultAndGenerated(entries) ==
  \E i \in DOMAIN entries :
    LET d == entries[i].value IN
    IF "properties" \in DOMAIN d THEN BothDefaultAndGenerated(d.properties)
    ELSE "defaultValue" \in DOMAIN d /\ "generatedAlways" \in DOMAIN d

\* C24: createTable throws for every schema in which a scalar column, top-level
\* or nested in an object column, has both defaultValue and generatedAlways.
C24_DefaultAndGeneratedRejected ==
  (input.fn = "createTable" /\ BothDefaultAndGenerated(input.args[2])) =>
    output.state = "threw"

\* C25: with a non-empty primaryKeys the statement of insert ends with
\* ON CONFLICT (<primary keys>) DO UPDATE SET and one assignment for each key
\* that is no primary key, in key order; with null or [] it ends with
\* ON CONFLICT DO NOTHING, and [] gives the statement null gives.
C25_InsertConflictClause ==
  (input.fn = "insert" /\ output.state = "returned") =>
    LET keys == input.args[2]
        pks == IF input.args[3] = Null THEN <<>> ELSE input.args[3].items
        rest == SelectSeq(keys, LAMBDA key : \A j \in DOMAIN pks : pks[j] # key)
        clause == IF Len(pks) = 0 THEN <<" ON CONFLICT DO NOTHING", ";">>
                  ELSE <<" ON CONFLICT (">>
                       \o Join([j \in DOMAIN pks |-> <<"\"", pks[j], "\"">>], <<", ">>)
                       \o <<") DO UPDATE SET ">>
                       \o Join([j \in DOMAIN rest |->
                                  <<"\"", rest[j], "\"", " = excluded.", "\"", rest[j], "\"">>],
                               <<", ">>)
                       \o <<";">>
        n == Len(output.value)
    IN /\ n > Len(clause)
       /\ SubSeq(output.value, n - Len(clause) + 1, n) = clause
       /\ output.value[n - Len(clause)] = ")"
       /\ Len(pks) = 0 => output.value = insert(input.args[1], keys, Null)

\* insert was called with the keys id, name, value and the primary key id.
C25_Witness ==
  /\ input.fn = "insert"
  /\ input.args[2] = <<"id", "name", "value">>
  /\ input.args[3] = Arr(<<"id">>)
  /\ output.state = "returned"
  /\ \E i \in DOMAIN output.value : output.value[i] = ") DO UPDATE SET "

\* C30: in every statement of insert that has a DO UPDATE SET clause, an
\* assignment follows SET.
C30_UpdateSetNotEmpty ==
  (input.fn = "insert" /\ output.state = "returned") =>
    \A i \in DOMAIN output.value :
      output.value[i] = ") DO UPDATE SET " =>
        (i + 1 \in DOMAIN output.value /\ output.value[i + 1] # ";")

====
